---- MODULE Spec2Model ----
(***************************************************************************)
(* Range-partitioned concurrent backfill of MystenLabs/graphql-benchmark:  *)
(* just_the_txs.py ("root"), migration_scripts/just_the_txs.py             *)
(* ("migration") and the chunk statements of transactions_v2.py.           *)
(*                                                                         *)
(* review.py's exceeds and runnable_query.py's replace_placeholders have   *)
(* a specification of their own each.                                      *)
(*                                                                         *)
(* One behaviour is a sequence of processes: a first invocation over       *)
(* [start, end], then --resume invocations fed with the log the previous   *)
(* process left behind.  The main thread and every pool worker are         *)
(* interleaved step by step; the signal handler may run at any moment.     *)
(***************************************************************************)
EXTENDS Integers, Sequences, FiniteSets, Bags, TLC

(* ------------------------------ bounds -------------------------------- *)
MaxKey == 3        \* largest tx_sequence_number in the model
MaxPool == 2       \* largest max_connections drawn
MaxChunk == 2      \* largest chunk_size drawn
MaxCp == 1         \* largest checkpoint_sequence_number of a source row
MaxExecs == 2      \* executions of one chunk statement in the statement harness

Scripts == {"root", "migration"}
Outcomes == {"ok", "swallowed", "raised"}

VARIABLES
    script,              \* which script this process runs
    max_connections,     \* module constant max_connections (pool size)
    chunk_size,          \* process_range's chunk_size
    start, end,          \* start_threads' start and end
    resume,              \* args.resume and args.log
    pc,                  \* position of the main thread
    shutdown_requested,  \* the module global
    delivered,           \* history: a signal reached the handler in this process
    thread_ranges,       \* start_threads' thread_ranges
    supplied,            \* start_threads was given thread_ranges (took its else branch)
    fut,                 \* per future: its state / its worker's position
    k,                   \* loop index of the main thread (submit, cancel)
    chunks,              \* per future: the chunks handed to func, in order
    log,                 \* lines of app.log written by this process
    prior_log,           \* the file passed with --log, until process_log has read it
    reported,            \* futures whose exception start_threads has printed
    getconns, putconns,  \* per future: calls of connection_pool.getconn / putconn
    connection_pool,     \* the psycopg2 pool object (pool harnesses)
    worker,              \* per task of a pool harness: position, key and conn
    args,                \* argparse's namespace (the __main__ blocks)
    files,               \* the log files on disk, by name
    stmt, source, chunk, table, table_once, execs   \* chunk-statement harness

vars == <<script, max_connections, chunk_size, start, end, resume, pc,
          shutdown_requested, delivered, thread_ranges, supplied, fut, k,
          chunks, log, prior_log, reported, getconns, putconns,
          connection_pool, worker, args, files,
          stmt, source, chunk, table, table_once, execs>>

procVars == <<script, max_connections, chunk_size, start, end, resume, pc,
              shutdown_requested, delivered, thread_ranges, supplied, fut, k,
              chunks, log, prior_log, reported, getconns, putconns>>

stmtVars == <<stmt, source, chunk, table, table_once, execs>>

poolVars == <<connection_pool, worker>>

mainVars == <<args, files>>

argVars == <<script, max_connections, chunk_size>>

(* ----------------------------- helpers -------------------------------- *)
Min(a, b) == IF a <= b THEN a ELSE b

Keys(r) == r[1]..r[2]

(* f"{n}" for a non-negative int: its decimal digits, most significant first *)
RECURSIVE Str(_)
Str(n) == IF n < 10 THEN <<n>> ELSE Append(Str(n \div 10), n % 10)

(* int(s) for a string of decimal digits *)
RECURSIVE Int_(_)
Int_(s) == IF s = <<>> THEN 0 ELSE 10 * Int_(SubSeq(s, 1, Len(s) - 1)) + s[Len(s)]

(* math.ceil(a / b) for a >= 0, b >= 1 (the float quotient is exact enough *)
(* to round as the integer formula does for any a * b below 2^53)         *)
Ceil(a, b) == (a + b - 1) \div b

(* logging.basicConfig(format='%(name)s - %(levelname)s - %(message)s'):   *)
(* a line is "root - <level> - Thread <thread> <event> at range <lo>-<hi>" *)
(* with the numbers as digit strings.                                      *)
log_shutdown(thread_id, start_tx, end_cp) ==
    [level |-> "INFO", thread |-> Str(thread_id), event |-> "shutdown",
     lo |-> Str(start_tx), hi |-> Str(end_cp)]

log_error(thread_id, start_tx, end_cp) ==
    [level |-> "ERROR", thread |-> Str(thread_id), event |-> "error",
     lo |-> Str(start_tx), hi |-> Str(end_cp)]

(* re.match(r"root - INFO - Thread (\d+) shutdown at range (\d+)-(\d+)")   *)
(* in the root script; re.search(r'(\d+)-(\d+)') in the migration script,  *)
(* whose leftmost match in either kind of line is the "<lo>-<hi>" field.   *)
LineMatches(sc, line) ==
    IF sc = "root" THEN line.level = "INFO" /\ line.event = "shutdown"
    ELSE TRUE

RECURSIVE process_log(_, _)
process_log(sc, log_file) ==
    IF log_file = <<>> THEN <<>>
    ELSE LET line == Head(log_file)
             rest == process_log(sc, Tail(log_file))
         IN  IF LineMatches(sc, line)
             THEN <<<<Int_(line.lo), Int_(line.hi)>>>> \o rest
             ELSE rest

(* mutant: floor instead of math.ceil *)
range_per_thread_floor(s, e, n) == (e - s + 1) \div n

(* start_threads, the thread_ranges it builds when none are supplied *)
range_per_thread(s, e, n) == Ceil(e - s + 1, n)

(* mutant: the upper bound without the `- 1` *)
Partition_shared_bound(s, e, n) ==
    [i \in 1..n |->
        <<s + (i - 1) * range_per_thread(s, e, n),
          Min(s + i * range_per_thread(s, e, n), e)>>]

(* mutant: sub-ranges that are not cut at end *)
Partition_untruncated(s, e, n) ==
    [i \in 1..n |->
        <<s + (i - 1) * range_per_thread(s, e, n),
          s + i * range_per_thread(s, e, n) - 1>>]

Partition(s, e, n) ==
    [i \in 1..n |->
        <<s + (i - 1) * range_per_thread(s, e, n),
          Min(s + i * range_per_thread(s, e, n) - 1, e)>>]

(* start_threads' choice between the supplied and the built thread_ranges *)
ThreadRanges(s, e, n, given) ==
    IF given = <<>> THEN Partition(s, e, n) ELSE given

(* start_threads' else branch rebinds its locals start and end: the root   *)
(* script to the min and max over thread_ranges, the migration script, by  *)
(* `for start, end in thread_ranges`, to the last range.                   *)
SeqMin(s, f) == CHOOSE m \in {s[i][f] : i \in 1..Len(s)} : \A i \in 1..Len(s) : m <= s[i][f]
SeqMax(s, f) == CHOOSE m \in {s[i][f] : i \in 1..Len(s)} : \A i \in 1..Len(s) : m >= s[i][f]

RebindStart(sc, s, given) ==
    IF given = <<>> THEN s
    ELSE IF sc = "root" THEN SeqMin(given, 1) ELSE given[Len(given)][1]

RebindEnd(sc, e, given) ==
    IF given = <<>> THEN e
    ELSE IF sc = "root" THEN SeqMax(given, 2) ELSE given[Len(given)][2]

(* ------------------------- worker bookkeeping ------------------------- *)
Futures == 1..Len(thread_ranges)
Running(i) == fut[i] \in {"check", "exec"}
(* mutant: a cancelled future that never counts as done *)
Done_unless_cancelled(i) == fut[i] \in {"finished", "raised"}

(* future.done(), and what as_completed waits for *)
Done(i) == fut[i] \in {"finished", "raised", "cancelled"}

(* the chunks of future i whose call to func returned *)
Returned(i) == SelectSeq(chunks[i], LAMBDA c : c.outcome # "raised")

(* mutant: the chunk end without the `- 1` *)
end_of_chunk_overlap(i) ==
    Min(thread_ranges[i][1] + Len(chunks[i]) * chunk_size + chunk_size, thread_ranges[i][2])

(* mutant: a loop stride of chunk_size + 1 *)
idx_skip(i) == thread_ranges[i][1] + Len(chunks[i]) * (chunk_size + 1)

(* process_range's loop variable idx and the migration script's completed *)
completed(i) == Len(Returned(i)) * chunk_size
idx(i) == thread_ranges[i][1] + Len(chunks[i]) * chunk_size
end_of_chunk(i) == Min(idx(i) + chunk_size - 1, thread_ranges[i][2])

ExecutedKeys(i) == UNION {c.lo..c.hi : c \in {chunks[i][j] : j \in 1..Len(chunks[i])}}
CommittedKeys ==
    UNION {c.lo..c.hi : c \in {d \in UNION {{chunks[i][j] : j \in 1..Len(chunks[i])} : i \in Futures} :
                                d.outcome = "ok"}}

(* -------------------------- the connection pool ----------------------- *)
(* connection_pool = psycopg2.pool.SimpleConnectionPool(1, max_connections, *)
(* ...) in both just_the_txs.py scripts and in objects_history.py;          *)
(* ThreadedConnectionPool in transactions_v2.py.  Both keep _pool (the idle *)
(* connections), _used (key -> connection), _rused (connection -> key) and  *)
(* the key counter _keys; only ThreadedConnectionPool runs getconn and      *)
(* putconn under a lock, SimpleConnectionPool is documented as not          *)
(* shareable between threads.  Connections are numbered by creation.        *)
minconn == 1

PoolClass(sc) ==
    IF sc = "transactions_v2" THEN "ThreadedConnectionPool" ELSE "SimpleConnectionPool"

EmptyMap == [x \in {} |-> 0]
MapPut(f, a, b) == [x \in DOMAIN f \cup {a} |-> IF x = a THEN b ELSE f[x]]
MapDel(f, a) == [x \in DOMAIN f \ {a} |-> f[x]]

(* the pool after its constructor: minconn connections made and idle *)
NewPool == [keys |-> 0, used |-> EmptyMap, rused |-> EmptyMap, pool |-> <<1>>, made |-> 1]

(* _getconn once the key is known: the connection already filed under the   *)
(* key, else an idle one, else a new one; conn = 0 is PoolError (exhausted) *)
pool_getconn(p, key, maxconn) ==
    IF key \in DOMAIN p.used THEN [pool |-> p, conn |-> p.used[key]]
    ELSE IF p.pool # <<>>
    THEN LET c == p.pool[Len(p.pool)]
         IN  [pool |-> [p EXCEPT !.pool = SubSeq(@, 1, Len(@) - 1),
                                 !.used = MapPut(@, key, c),
                                 !.rused = MapPut(@, c, key)],
              conn |-> c]
    ELSE IF Cardinality(DOMAIN p.used) = maxconn THEN [pool |-> p, conn |-> 0]
    ELSE LET c == p.made + 1
         IN  [pool |-> [p EXCEPT !.made = c,
                                 !.used = MapPut(@, key, c),
                                 !.rused = MapPut(@, c, key)],
              conn |-> c]

(* _putconn: PoolError ("trying to put unkeyed connection") when the        *)
(* connection is not filed; else it goes back to _pool while fewer than     *)
(* minconn are idle (it is closed otherwise) and its key is forgotten       *)
pool_putconn(p, c) ==
    IF c \notin DOMAIN p.rused THEN [pool |-> p, ok |-> FALSE]
    ELSE [pool |-> [p EXCEPT !.pool = IF Len(@) < minconn THEN Append(@, c) ELSE @,
                             !.used = MapDel(@, p.rused[c]),
                             !.rused = MapDel(@, c)],
          ok |-> TRUE]

PoolIdle == connection_pool = NewPool /\ worker = <<>>

(* ----------------------- arguments and log files ---------------------- *)
(* An option that was not given is None; one that was given carries its     *)
(* value (--log: the file name, "" when it was not given).  --max-connections of transactions_v2.py has no type=, so a value *)
(* given on the command line stays a str and only the default is an int.    *)
None == [given |-> FALSE, type |-> "NoneType", val |-> 0]
IntArg(n) == [given |-> TRUE, type |-> "int", val |-> n]
StrArg(n) == [given |-> TRUE, type |-> "str", val |-> n]

NoArgs == [mode |-> "none", start |-> None, end |-> None, log |-> "",
           max_connections |-> None]

LogFiles == {"app.log", "saved.log"}
NoFiles == [f \in LogFiles |-> <<>>]

MainIdle == args = NoArgs /\ files = NoFiles

(* ------------------------------- Init --------------------------------- *)
StmtIdle ==
    /\ stmt = "none" /\ source = {} /\ chunk = <<0, 0>>
    /\ table = EmptyBag /\ table_once = EmptyBag /\ execs = 0

(* The process right after signal.signal(SIGTERM, signal_handler): the     *)
(* handlers are installed, `shutdown_requested = False` has not run yet.   *)
Init ==
    /\ script \in Scripts
    /\ max_connections \in 1..MaxPool
    /\ chunk_size \in 1..MaxChunk
    /\ start \in 0..MaxKey
    /\ end \in start..MaxKey
    /\ resume = FALSE
    /\ pc = "module_init"
    /\ shutdown_requested = FALSE
    /\ delivered = FALSE
    /\ thread_ranges = <<>>
    /\ supplied = FALSE
    /\ fut = <<>>
    /\ k = 1
    /\ chunks = <<>>
    /\ log = <<>>
    /\ prior_log = <<>>
    /\ reported = {}
    /\ getconns = <<>>
    /\ putconns = <<>>
    /\ PoolIdle
    /\ MainIdle
    /\ StmtIdle

(* ------------------------- the signal handler ------------------------- *)
signal_handler ==
    /\ pc # "done"
    /\ shutdown_requested' = TRUE
    /\ delivered' = TRUE
    /\ UNCHANGED <<argVars, start, end, resume, pc, thread_ranges, supplied,
                   fut, k, chunks, log, prior_log, reported, getconns, putconns>>
    /\ UNCHANGED <<stmtVars, poolVars, mainVars>>

(* --------------------------- the main thread -------------------------- *)
(* module level: shutdown_requested = False *)
ModuleInit ==
    /\ pc = "module_init"
    /\ shutdown_requested' = FALSE
    /\ pc' = "main"
    /\ UNCHANGED <<argVars, start, end, resume, delivered, thread_ranges,
                   supplied, fut, k, chunks, log, prior_log, reported,
                   getconns, putconns>>
    /\ UNCHANGED <<stmtVars, poolVars, mainVars>>

(* __main__ up to the fan-out of start_threads: read the log when resuming, *)
(* build or take over thread_ranges.                                        *)
Main ==
    /\ pc = "main"
    /\ LET given == IF resume THEN process_log(script, prior_log) ELSE <<>>
           ranges == ThreadRanges(start, end, max_connections, given)
       IN  /\ thread_ranges' = ranges
           /\ supplied' = (given # <<>>)
           /\ fut' = [i \in 1..Len(ranges) |-> "new"]
           /\ chunks' = [i \in 1..Len(ranges) |-> <<>>]
           /\ getconns' = [i \in 1..Len(ranges) |-> 0]
           /\ putconns' = [i \in 1..Len(ranges) |-> 0]
           /\ start' = RebindStart(script, start, given)
           /\ end' = RebindEnd(script, end, given)
    /\ prior_log' = <<>>
    /\ k' = 1
    /\ pc' = "submit"
    /\ UNCHANGED <<argVars, resume, shutdown_requested, delivered, log, reported>>
    /\ UNCHANGED <<stmtVars, poolVars, mainVars>>

(* futures = [executor.submit(process_range, ...) for ...], one per step *)
Submit ==
    /\ pc = "submit"
    /\ fut' = [fut EXCEPT ![k] = "pending"]
    /\ k' = k + 1
    /\ pc' = IF k = Len(thread_ranges) THEN "check_shutdown" ELSE pc
    /\ UNCHANGED <<argVars, start, end, resume, shutdown_requested, delivered,
                   thread_ranges, supplied, chunks, log, prior_log, reported,
                   getconns, putconns>>
    /\ UNCHANGED <<stmtVars, poolVars, mainVars>>

(* if shutdown_requested and not all(future.done() for future in futures) *)
CheckShutdown ==
    /\ pc = "check_shutdown"
    /\ pc' = IF shutdown_requested /\ ~ (\A i \in Futures : Done(i))
             THEN "cancel" ELSE "as_completed"
    /\ k' = 1
    /\ UNCHANGED <<argVars, start, end, resume, shutdown_requested, delivered,
                   thread_ranges, supplied, fut, chunks, log, prior_log,
                   reported, getconns, putconns>>
    /\ UNCHANGED <<stmtVars, poolVars, mainVars>>

(* for future in futures: future.cancel()  -- succeeds on a pending future *)
Cancel ==
    /\ pc = "cancel"
    /\ fut' = [fut EXCEPT ![k] = IF @ = "pending" THEN "cancelled" ELSE @]
    /\ k' = k + 1
    /\ pc' = IF k = Len(thread_ranges) THEN "as_completed" ELSE pc
    /\ UNCHANGED <<argVars, start, end, resume, shutdown_requested, delivered,
                   thread_ranges, supplied, chunks, log, prior_log, reported,
                   getconns, putconns>>
    /\ UNCHANGED <<stmtVars, poolVars, mainVars>>

(* for future in as_completed(futures): the loop takes a future as soon as  *)
(* it is done; future.result() re-raises the exception that left            *)
(* process_range and `except Exception` prints it.  Taking a future that    *)
(* returned normally changes nothing.                                       *)
ReportException(i) ==
    /\ pc = "as_completed"
    /\ fut[i] = "raised"
    /\ i \notin reported
    /\ reported' = reported \cup {i}
    /\ UNCHANGED <<argVars, start, end, resume, pc, shutdown_requested,
                   delivered, thread_ranges, supplied, fut, k, chunks, log,
                   prior_log, getconns, putconns>>
    /\ UNCHANGED <<stmtVars, poolVars, mainVars>>

(* mutant: a loop left at the first exception it meets *)
as_completed_first_exception ==
    \/ \E i \in Futures : fut[i] = "raised" /\ i \in reported
    \/ \A i \in Futures : Done(i)

(* as_completed(futures) is exhausted: every future was yielded *)
as_completed_exhausted ==
    \A i \in Futures : Done(i) /\ (fut[i] = "raised" => i \in reported)

(* the end of the loop, the executor's __exit__ and start_threads' return *)
AsCompleted ==
    /\ pc = "as_completed"
    /\ as_completed_exhausted
    /\ pc' = "done"
    /\ UNCHANGED <<argVars, start, end, resume, shutdown_requested, delivered,
                   thread_ranges, supplied, fut, k, chunks, log, prior_log,
                   reported, getconns, putconns>>
    /\ UNCHANGED <<stmtVars, poolVars, mainVars>>

(* ----------------------------- the workers ---------------------------- *)
(* conn = connection_pool.getconn() / connection_pool.putconn(conn), as    *)
(* calls counted per worker                                                *)
getconn(g, i) == [g EXCEPT ![i] = @ + 1]
putconn(p, i) == [p EXCEPT ![i] = @ + 1]

(* mutant: putconn as a statement after the loop instead of a finally clause *)
putconn_after_loop(p, i, exit) ==
    IF exit = "exhausted" THEN putconn(p, i) ELSE p

(* finally: connection_pool.putconn(conn) -- runs on every way out of the  *)
(* try block: the loop is exhausted, `return` on shutdown, `raise`         *)
finally_putconn(p, i, exit) ==
    IF exit \in {"exhausted", "shutdown", "raised"} THEN putconn(p, i) ELSE p

(* A pool thread takes the oldest pending work item (the executor's queue  *)
(* is FIFO, at most max_workers = max_connections threads) and enters      *)
(* process_range: getconn, then the loop header.                           *)
StartWorker(i) ==
    /\ fut[i] = "pending"
    /\ \A j \in 1..(i - 1) : fut[j] # "pending"
    /\ Cardinality({j \in Futures : Running(j)}) < max_connections
    /\ fut' = [fut EXCEPT ![i] = "check"]
    /\ getconns' = getconn(getconns, i)
    /\ UNCHANGED <<argVars, start, end, resume, pc, shutdown_requested,
                   delivered, thread_ranges, supplied, k, chunks, log,
                   prior_log, reported, putconns>>
    /\ UNCHANGED <<stmtVars, poolVars, mainVars>>

(* mutant: a loop that never reads the flag *)
LoopHeader_unchecked(i) ==
    IF idx(i) > thread_ranges[i][2] THEN "exhausted" ELSE "chunk"

(* what the loop header and `if shutdown_requested:` decide *)
LoopHeader(i) ==
    IF idx(i) > thread_ranges[i][2] THEN "exhausted"
    ELSE IF shutdown_requested THEN "shutdown"
    ELSE "chunk"

(* mutant: the sub-range start logged instead of idx *)
ShutdownLine_start(i) == log_shutdown(i - 1, thread_ranges[i][1], thread_ranges[i][2])

(* the arguments process_range passes to log_shutdown *)
ShutdownLine(i) == log_shutdown(i - 1, idx(i), thread_ranges[i][2])

(* for idx in range(start, end + 1, chunk_size): if shutdown_requested: ... *)
CheckFlag(i) ==
    /\ fut[i] = "check"
    /\ LET h == LoopHeader(i)
       IN  /\ fut' = [fut EXCEPT ![i] = IF h = "chunk" THEN "exec" ELSE "finished"]
           /\ log' = IF h = "shutdown" THEN Append(log, ShutdownLine(i)) ELSE log
           /\ putconns' = finally_putconn(putconns, i, h)
    /\ UNCHANGED <<argVars, start, end, resume, pc, shutdown_requested,
                   delivered, thread_ranges, supplied, k, chunks, prior_log,
                   reported, getconns>>
    /\ UNCHANGED <<stmtVars, poolVars, mainVars>>

(* mutant: the migration script logging the sub-range start as the root script does *)
ErrorLine_start(sc, i) == log_error(i - 1, thread_ranges[i][1], thread_ranges[i][2])

(* the arguments process_range passes to log_error in its except clause *)
ErrorLine(sc, i) ==
    IF sc = "root"
    THEN log_error(i - 1, thread_ranges[i][1], thread_ranges[i][2])
    ELSE log_error(i - 1, thread_ranges[i][1] + completed(i), thread_ranges[i][2])

(* func(conn, idx, end_of_chunk): the statement commits ("ok"), fails and   *)
(* is caught inside func ("swallowed": rollback, print, return), or the     *)
(* exception leaves func ("raised": process_range logs it and re-raises).   *)
ExecChunk(i, o) ==
    /\ fut[i] = "exec"
    /\ chunks' = [chunks EXCEPT ![i] =
                    Append(@, [lo |-> idx(i), hi |-> end_of_chunk(i), outcome |-> o])]
    /\ fut' = [fut EXCEPT ![i] = IF o = "raised" THEN "raised" ELSE "check"]
    /\ log' = IF o = "raised" THEN Append(log, ErrorLine(script, i)) ELSE log
    /\ putconns' = finally_putconn(putconns, i, o)
    /\ UNCHANGED <<argVars, start, end, resume, pc, shutdown_requested,
                   delivered, thread_ranges, supplied, k, prior_log, reported,
                   getconns>>
    /\ UNCHANGED <<stmtVars, poolVars, mainVars>>

(* --------------------------- the next process ------------------------- *)
(* The operator starts the script again with --resume --log <copy of the   *)
(* log the finished process wrote>; --start and --end are free.            *)
Resume ==
    /\ pc = "done"
    /\ ~ resume
    /\ resume' = TRUE
    /\ start' \in 0..MaxKey
    /\ end' \in start'..MaxKey
    /\ prior_log' = log
    /\ log' = <<>>
    /\ pc' = "module_init"
    /\ shutdown_requested' = FALSE
    /\ delivered' = FALSE
    /\ thread_ranges' = <<>>
    /\ supplied' = FALSE
    /\ fut' = <<>>
    /\ chunks' = <<>>
    /\ reported' = {}
    /\ getconns' = <<>>
    /\ putconns' = <<>>
    /\ k' = 1
    /\ UNCHANGED argVars
    /\ UNCHANGED <<stmtVars, poolVars, mainVars>>

(* ----------------------- the chunk statements ------------------------ *)
(* Source table `transactions`: rows <<tx_sequence_number,                 *)
(* checkpoint_sequence_number>>, tx_sequence_number unique.  Destination   *)
(* tables are bags of such rows.                                           *)
Stmts == {"setup_unpartitioned_table", "migrate_partition"}

SourceTables ==
    UNION {{ {<<t, f[t]>> : t \in K} : f \in [K -> 0..MaxCp] } : K \in SUBSET (0..MaxKey)}

(* WHERE tx_sequence_number BETWEEN %s AND %s *)
Between(rows, a, b) == {r \in rows : a <= r[1] /\ r[1] <= b}

(* cp_for_tx: cur.fetchone()[0]; "none" when no row has that key *)
cp_for_tx(rows, t) ==
    IF \E r \in rows : r[1] = t THEN (CHOOSE r \in rows : r[1] = t)[2] ELSE -1

(* INSERT ... SELECT ... ON CONFLICT (tx_sequence_number) DO NOTHING, into *)
(* tx_sequence_numbers with PRIMARY KEY (tx_sequence_number)               *)
InsertIgnoringConflicts(tbl, rows) ==
    tbl (+) SetToBag({r \in rows : \A t \in BagToSet(tbl) : t[1] # r[1]})

(* insert into transactions_v2_{n} select ...: create_partition_statement *)
(* declares no key on the destination, every selected row is added        *)
InsertPlain(tbl, rows) == tbl (+) SetToBag(rows)

(* the destination after one call of the chunk function on [a, b] *)
setup_unpartitioned_table(tbl, rows, a, b) ==
    InsertIgnoringConflicts(tbl, Between(rows, a, b))

migrate_partition(tbl, rows, a, b) ==
    LET min_checkpoint == cp_for_tx(rows, a)
        max_checkpoint == cp_for_tx(rows, b)
    IN  IF min_checkpoint = -1 \/ max_checkpoint = -1
        THEN tbl    \* TypeError caught by `except Exception`: nothing inserted
        ELSE InsertPlain(tbl, {r \in Between(rows, a, b) :
                                  min_checkpoint <= r[2] /\ r[2] <= max_checkpoint})

ApplyStmt(st, tbl, rows, a, b) ==
    IF st = "setup_unpartitioned_table" THEN setup_unpartitioned_table(tbl, rows, a, b)
    ELSE migrate_partition(tbl, rows, a, b)

ProcIdle ==
    /\ script = "root" /\ max_connections = 1 /\ chunk_size = 1
    /\ start = 0 /\ end = 0 /\ resume = FALSE /\ pc = "done"
    /\ shutdown_requested = FALSE /\ delivered = FALSE
    /\ thread_ranges = <<>> /\ supplied = FALSE /\ fut = <<>> /\ k = 1
    /\ chunks = <<>>
    /\ log = <<>> /\ prior_log = <<>>
    /\ reported = {} /\ getconns = <<>> /\ putconns = <<>>

InitStmt ==
    /\ ProcIdle
    /\ PoolIdle
    /\ MainIdle
    /\ stmt \in Stmts
    /\ source \in SourceTables
    /\ chunk \in {c \in (0..MaxKey) \X (0..MaxKey) : c[1] <= c[2]}
    /\ table = EmptyBag
    /\ table_once = EmptyBag
    /\ execs = 0

(* func(conn, idx, end_of_chunk) called once more on the same chunk *)
ExecuteStmt ==
    /\ stmt # "none"
    /\ execs < MaxExecs
    /\ table' = ApplyStmt(stmt, table, source, chunk[1], chunk[2])
    /\ table_once' = IF execs = 0 THEN table' ELSE table_once
    /\ execs' = execs + 1
    /\ UNCHANGED <<stmt, source, chunk>>
    /\ UNCHANGED <<procVars, poolVars, mainVars>>

NextStmt == ExecuteStmt

SpecStmt == InitStmt /\ [][NextStmt]_vars

(* ------------------------ the pool under load ------------------------- *)
(* The tasks of one ThreadPoolExecutor(max_workers=max_connections), seen   *)
(* only through their use of connection_pool: process_range takes a         *)
(* connection, works, and puts it back in its finally clause.               *)
MaxTasks == 3      \* tasks submitted in the pool harness

PoolScripts == {"root", "migration", "transactions_v2"}

Tasks == 1..Len(worker)
Active(w) == worker[w].pos \in {"getconn", "getkey", "lookup", "holding"}
Holding(w) == worker[w].pos = "holding"

InitPool ==
    /\ script \in PoolScripts
    /\ max_connections \in 1..MaxPool
    /\ chunk_size = 1 /\ start = 0 /\ end = 0 /\ resume = FALSE /\ pc = "done"
    /\ shutdown_requested = FALSE /\ delivered = FALSE
    /\ thread_ranges = <<>> /\ supplied = FALSE /\ fut = <<>> /\ k = 1
    /\ chunks = <<>> /\ log = <<>> /\ prior_log = <<>>
    /\ reported = {} /\ getconns = <<>> /\ putconns = <<>>
    /\ connection_pool = NewPool
    /\ MainIdle
    /\ \E n \in 1..MaxTasks :
          worker = [w \in 1..n |-> [pos |-> "queued", key |-> 0, conn |-> 0]]
    /\ StmtIdle

(* a pool thread takes the oldest queued task and enters process_range *)
TaskStart(w) ==
    /\ worker[w].pos = "queued"
    /\ \A v \in 1..(w - 1) : worker[v].pos # "queued"
    /\ Cardinality({v \in Tasks : Active(v)}) < max_connections
    /\ worker' = [worker EXCEPT ![w].pos = "getconn"]
    /\ UNCHANGED <<procVars, connection_pool, stmtVars, mainVars>>

(* SimpleConnectionPool.getconn, no lock: _getkey's `self._keys += 1` reads *)
(* the counter ...                                                          *)
GetKeyRead(w) ==
    /\ worker[w].pos = "getconn"
    /\ PoolClass(script) = "SimpleConnectionPool"
    /\ worker' = [worker EXCEPT ![w].pos = "getkey", ![w].key = connection_pool.keys]
    /\ UNCHANGED <<procVars, connection_pool, stmtVars, mainVars>>

(* ... and stores the value it read plus one, which is the key *)
GetKeyWrite(w) ==
    /\ worker[w].pos = "getkey"
    /\ connection_pool' = [connection_pool EXCEPT !.keys = worker[w].key + 1]
    /\ worker' = [worker EXCEPT ![w].pos = "lookup", ![w].key = @ + 1]
    /\ UNCHANGED <<procVars, stmtVars, mainVars>>

(* the rest of _getconn; a PoolError leaves process_range before its try *)
Lookup(w) ==
    /\ worker[w].pos = "lookup"
    /\ LET r == pool_getconn(connection_pool, worker[w].key, max_connections)
       IN  /\ connection_pool' = r.pool
           /\ worker' = [worker EXCEPT ![w].conn = r.conn,
                                       ![w].pos = IF r.conn = 0 THEN "pool_error" ELSE "holding"]
    /\ UNCHANGED <<procVars, stmtVars, mainVars>>

(* ThreadedConnectionPool.getconn: the same steps under self._lock *)
GetConnLocked(w) ==
    /\ worker[w].pos = "getconn"
    /\ PoolClass(script) = "ThreadedConnectionPool"
    /\ LET key == connection_pool.keys + 1
           r == pool_getconn([connection_pool EXCEPT !.keys = key], key, max_connections)
       IN  /\ connection_pool' = r.pool
           /\ worker' = [worker EXCEPT ![w].key = key, ![w].conn = r.conn,
                                       ![w].pos = IF r.conn = 0 THEN "pool_error" ELSE "holding"]
    /\ UNCHANGED <<procVars, stmtVars, mainVars>>

(* the try block ends (loop exhausted, return on shutdown, or raise) and    *)
(* `finally: connection_pool.putconn(conn)` runs                            *)
Release(w) ==
    /\ worker[w].pos = "holding"
    /\ LET r == pool_putconn(connection_pool, worker[w].conn)
       IN  /\ connection_pool' = r.pool
           /\ worker' = [worker EXCEPT ![w].pos = IF r.ok THEN "ended" ELSE "put_error"]
    /\ UNCHANGED <<procVars, stmtVars, mainVars>>

TaskStarts == \E w \in Tasks : TaskStart(w)
TaskReadsKey == \E w \in Tasks : GetKeyRead(w)
TaskWritesKey == \E w \in Tasks : GetKeyWrite(w)
TaskLooksUp == \E w \in Tasks : Lookup(w)
TaskGetsConnLocked == \E w \in Tasks : GetConnLocked(w)
TaskReleases == \E w \in Tasks : Release(w)

NextPool ==
    \/ TaskStarts
    \/ TaskReadsKey
    \/ TaskWritesKey
    \/ TaskLooksUp
    \/ TaskGetsConnLocked
    \/ TaskReleases

SpecPool == InitPool /\ [][NextPool]_vars

(* --------------------------- objects_history.py ----------------------- *)
(* __main__: one connection is taken in the main thread for every index of  *)
(* range(start, end) and submitted with it to create_partition; then, in    *)
(* the main thread again, one connection for attach_partition.  A task is   *)
(* one step of the model (max_workers only bounds how many are in flight).  *)
create_partition_params == 4     \* def create_partition(conn, index_name, index_condition, partition_idx)
submitted_args == 2              \* executor.submit(create_partition, connection_pool.getconn(), idx)

StmtOutcomes == {"ok", "failed"}

(* connection_pool.getconn() from the main thread: next key, then _getconn *)
main_getconn(p, maxconn) ==
    pool_getconn([p EXCEPT !.keys = @ + 1], p.keys + 1, maxconn)

CheckedOut(c) == c \in DOMAIN connection_pool.rused

InitObj ==
    /\ script = "objects_history"
    /\ max_connections \in 1..MaxPool
    /\ start \in 0..MaxKey
    /\ end \in 0..MaxKey
    /\ pc = "submit"
    /\ chunk_size = 1 /\ resume = FALSE
    /\ shutdown_requested = FALSE /\ delivered = FALSE
    /\ thread_ranges = <<>> /\ supplied = FALSE /\ fut = <<>> /\ k = 1
    /\ chunks = <<>> /\ log = <<>> /\ prior_log = <<>>
    /\ reported = {} /\ getconns = <<>> /\ putconns = <<>>
    /\ connection_pool = NewPool
    /\ worker = <<>>
    /\ MainIdle
    /\ StmtIdle

objFrame == <<script, max_connections, chunk_size, start, end, resume,
              shutdown_requested, delivered, thread_ranges, supplied, fut, k,
              chunks, log, prior_log, reported, getconns, putconns>>

(* one round of the list comprehension: getconn, then submit; a PoolError   *)
(* from getconn leaves the comprehension and ends the script                *)
ObjSubmit ==
    /\ pc = "submit"
    /\ IF start + Len(worker) >= end
       THEN /\ pc' = "as_completed"
            /\ UNCHANGED <<connection_pool, worker>>
       ELSE LET r == main_getconn(connection_pool, max_connections)
            IN  /\ connection_pool' = r.pool
                /\ IF r.conn = 0
                   THEN pc' = "pool_error" /\ UNCHANGED worker
                   ELSE /\ worker' = Append(worker, [pos |-> "pending",
                                                    key |-> r.pool.keys, conn |-> r.conn])
                        /\ UNCHANGED pc
    /\ UNCHANGED <<objFrame, stmtVars, mainVars>>

(* a pool thread calls create_partition(conn, idx): with fewer arguments    *)
(* than parameters the call raises TypeError before the body; the body      *)
(* catches a failing statement, so it ends with putconn either way          *)
ObjRunTask(i) ==
    /\ worker[i].pos = "pending"
    /\ IF submitted_args # create_partition_params
       THEN /\ worker' = [worker EXCEPT ![i].pos = "raised"]
            /\ UNCHANGED connection_pool
       ELSE LET r == pool_putconn(connection_pool, worker[i].conn)
            IN  /\ connection_pool' = r.pool
                /\ worker' = [worker EXCEPT ![i].pos = IF r.ok THEN "finished" ELSE "raised"]
    /\ UNCHANGED <<objFrame, pc, stmtVars, mainVars>>

(* for future in as_completed(futures): future.result() -- the first task   *)
(* exception ends the script; with every task collected the script goes on  *)
ObjCollect ==
    /\ pc = "as_completed"
    /\ \/ /\ \E i \in Tasks : worker[i].pos = "raised"
          /\ pc' = "crashed"
       \/ /\ \A i \in Tasks : worker[i].pos = "finished"
          /\ pc' = "attach"
    /\ UNCHANGED <<objFrame, poolVars, stmtVars, mainVars>>

(* with connection_pool.getconn() as conn: attach_partition(conn, ...):     *)
(* putconn only when CREATE INDEX fails; the with block of a connection     *)
(* ends its transaction and leaves it checked out                           *)
ObjAttach(o) ==
    /\ pc = "attach"
    /\ LET r == main_getconn(connection_pool, max_connections)
       IN  IF r.conn = 0
           THEN connection_pool' = r.pool /\ pc' = "pool_error"
           ELSE /\ connection_pool' = IF o = "failed"
                                      THEN pool_putconn(r.pool, r.conn).pool
                                      ELSE r.pool
                /\ pc' = "done"
    /\ UNCHANGED <<objFrame, worker, stmtVars, mainVars>>

ObjTaskRuns == \E i \in Tasks : ObjRunTask(i)
ObjAttaches == \E o \in StmtOutcomes : ObjAttach(o)

NextObj ==
    \/ ObjSubmit
    \/ ObjTaskRuns
    \/ ObjCollect
    \/ ObjAttaches

SpecObj == InitObj /\ [][NextObj]_vars

(* ------------------- the address statements, any order --------------- *)
(* create_merged_address_table (both just_the_txs.py scripts) and the       *)
(* migration script's update_table_with_addr, executed chunk by chunk by    *)
(* the workers of one start_threads call in any interleaving.  Rows carry   *)
(* <<tx_sequence_number, address, ...>>; the checkpoint column is a         *)
(* function of tx_sequence_number in every source table and is left out.    *)
MaxTx == 1         \* largest tx_sequence_number of the address tables

Addresses == {"a", "b"}
AddrStmts == {"create_merged_address_table", "update_table_with_addr"}
AddrRows == SUBSET ((0..MaxTx) \X Addresses)

(* the names the CASE expression's comments give the rel values *)
rel_name(sc, n) ==
    IF n = 0 THEN "Sender"
    ELSE IF n = (IF sc = "root" THEN 1 ELSE 2) THEN "Recipient"
    ELSE "SenderAndRecipient"

(* mutant: a CASE that tests only the sender side first *)
rel_of_sender_first(sc, is_sender, is_recipient) ==
    IF is_sender THEN 0
    ELSE IF is_recipient THEN (IF sc = "root" THEN 1 ELSE 2)
    ELSE (IF sc = "root" THEN 2 ELSE 1)

(* CASE WHEN s.address IS NOT NULL AND r.address IS NULL THEN 0 ... END:    *)
(* recipient-only is 1 and both is 2 in the root script, 2 and 1 in the     *)
(* migration script                                                         *)
rel_of(sc, is_sender, is_recipient) ==
    IF is_sender /\ ~ is_recipient THEN 0
    ELSE IF ~ is_sender /\ is_recipient THEN (IF sc = "root" THEN 1 ELSE 2)
    ELSE (IF sc = "root" THEN 2 ELSE 1)

(* s FULL OUTER JOIN r on tx_sequence_number and address, both restricted   *)
(* to BETWEEN a AND b: rows <<tx_sequence_number, address, rel>>            *)
MergedRows(sc, senders, recipients, a, b) ==
    {<<x[1], x[2], rel_of(sc, x \in senders, x \in recipients)>> :
        x \in Between(senders \cup recipients, a, b)}

(* mutant: a conflict target without tx_sequence_number *)
merged_conflict_key_address(sc, r) == <<r[2]>>

(* ON CONFLICT (tx_sequence_number, rel, address, checkpoint_sequence_number) *)
(* in the root script, (address, tx_sequence_number, cp_sequence_number) in   *)
(* the migration script                                                       *)
merged_conflict_key(sc, r) ==
    IF sc = "root" THEN <<r[1], r[3], r[2]>> ELSE <<r[2], r[1]>>

(* INSERT ... ON CONFLICT (<the script's target>) DO NOTHING, for selected  *)
(* rows of pairwise different keys                                          *)
InsertOnConflictDoNothing(sc, tbl, rows) ==
    tbl (+) SetToBag({r \in rows : \A t \in BagToSet(tbl) :
                        merged_conflict_key(sc, t) # merged_conflict_key(sc, r)})

create_merged_address_table(sc, tbl, src, a, b) ==
    InsertOnConflictDoNothing(sc, tbl, MergedRows(sc, src.senders, src.recipients, a, b))

(* txs JOIN {table} USING (tx_sequence_number), inserted with ON CONFLICT   *)
(* DO NOTHING (primary_key is None at every call): rows <<tx_sequence_number, *)
(* address, rel, field>>; the destination either declares the inserted      *)
(* columns unique or declares no key                                        *)
update_table_with_addr(tbl, src, a, b) ==
    LET txs == Between(src.tx_addresses, a, b)
        partial == UNION {{<<x[1], x[2], x[3], t[2]>> :
                              t \in {u \in src.table : u[1] = x[1]}} : x \in txs}
    IN  IF src.unique THEN tbl (+) SetToBag(partial \ BagToSet(tbl))
        ELSE InsertPlain(tbl, partial)

ApplyAddrStmt(sc, st, tbl, src, a, b) ==
    IF st = "create_merged_address_table" THEN create_merged_address_table(sc, tbl, src, a, b)
    ELSE update_table_with_addr(tbl, src, a, b)

(* the source tables a statement reads; tx_addresses as a sender-only merge  *)
(* left it                                                                   *)
AddrSources(sc, st) ==
    IF st = "create_merged_address_table"
    THEN {[senders |-> S, recipients |-> R] : S \in AddrRows, R \in AddrRows}
    ELSE {[tx_addresses |-> MergedRows(sc, S, {}, 0, MaxTx),
           table |-> {<<t, "f">> : t \in T}, unique |-> u] :
              S \in AddrRows, T \in SUBSET (0..MaxTx), u \in BOOLEAN}

InitOrder ==
    /\ script \in Scripts
    /\ max_connections \in 1..MaxPool
    /\ chunk_size \in 1..MaxChunk
    /\ start = 0
    /\ end = MaxTx
    /\ thread_ranges = Partition(start, end, max_connections)
    /\ chunks = [i \in 1..max_connections |-> <<>>]
    /\ stmt \in (IF script = "root" THEN {"create_merged_address_table"} ELSE AddrStmts)
    /\ source \in AddrSources(script, stmt)
    /\ table = EmptyBag
    /\ chunk = <<0, 0>>
    /\ table_once = EmptyBag /\ execs = 0
    /\ resume = FALSE /\ pc = "as_completed"
    /\ shutdown_requested = FALSE /\ delivered = FALSE
    /\ supplied = FALSE /\ fut = <<>> /\ k = 1
    /\ log = <<>> /\ prior_log = <<>>
    /\ reported = {} /\ getconns = <<>> /\ putconns = <<>>
    /\ PoolIdle
    /\ MainIdle

(* any worker with keys left executes and commits its next chunk *)
OrderExec(i) ==
    /\ idx(i) <= thread_ranges[i][2]
    /\ table' = ApplyAddrStmt(script, stmt, table, source, idx(i), end_of_chunk(i))
    /\ chunks' = [chunks EXCEPT ![i] =
                    Append(@, [lo |-> idx(i), hi |-> end_of_chunk(i), outcome |-> "ok"])]
    /\ chunk' = <<idx(i), end_of_chunk(i)>>
    /\ UNCHANGED <<argVars, start, end, resume, pc, shutdown_requested, delivered,
                   thread_ranges, supplied, fut, k, log, prior_log, reported,
                   getconns, putconns, poolVars, mainVars, stmt, source, table_once, execs>>

WorkerCommitsChunk == \E i \in Futures : OrderExec(i)

NextOrder == WorkerCommitsChunk

SpecOrder == InitOrder /\ [][NextOrder]_vars

(* the same chunks run one after the other in ascending key order *)
RECURSIVE Sequential(_, _, _)
Sequential(tbl, i, lo) ==
    IF i > Len(thread_ranges) THEN tbl
    ELSE IF lo > thread_ranges[i][2]
    THEN IF i = Len(thread_ranges) THEN tbl
         ELSE Sequential(tbl, i + 1, thread_ranges[i + 1][1])
    ELSE Sequential(ApplyAddrStmt(script, stmt, tbl, source, lo,
                                  Min(lo + chunk_size - 1, thread_ranges[i][2])),
                    i, lo + chunk_size)

(* ------------------- the partitioning expression alone ---------------- *)
(* start_threads up to its fan-out for ranges of about a thousand keys:     *)
(* start near 0, end up to 999, up to 2 * MaxPool pool connections.         *)
InitPartition ==
    /\ script \in Scripts
    /\ max_connections \in 1..(2 * MaxPool)
    /\ start \in 0..MaxKey
    /\ end \in (999 - MaxKey)..999
    /\ pc = "main"
    /\ chunk_size = 1 /\ resume = FALSE
    /\ shutdown_requested = FALSE /\ delivered = FALSE
    /\ thread_ranges = <<>> /\ supplied = FALSE /\ fut = <<>> /\ k = 1
    /\ chunks = <<>> /\ log = <<>> /\ prior_log = <<>>
    /\ reported = {} /\ getconns = <<>> /\ putconns = <<>>
    /\ PoolIdle
    /\ MainIdle
    /\ StmtIdle

(* if not thread_ranges: thread_ranges = [...] *)
BuildRanges ==
    /\ pc = "main"
    /\ thread_ranges' = ThreadRanges(start, end, max_connections, <<>>)
    /\ pc' = "submit"
    /\ UNCHANGED <<argVars, start, end, resume, shutdown_requested, delivered,
                   supplied, fut, k, chunks, log, prior_log, reported,
                   getconns, putconns, poolVars, mainVars, stmtVars>>

NextPartition == BuildRanges

SpecPartition == InitPartition /\ [][NextPartition]_vars

(* any pool thread may take the next step of its process_range call *)
WorkerStarts == \E i \in Futures : StartWorker(i)

WorkerChecksFlag == \E i \in Futures : CheckFlag(i)

WorkerExecutesChunk == \E i \in Futures, o \in Outcomes : ExecChunk(i, o)

(* the main thread takes the next future as_completed yields *)
MainReportsException == \E i \in Futures : ReportException(i)

Next ==
    \/ signal_handler
    \/ ModuleInit
    \/ Main
    \/ Submit
    \/ CheckShutdown
    \/ Cancel
    \/ MainReportsException
    \/ AsCompleted
    \/ WorkerStarts
    \/ WorkerChecksFlag
    \/ WorkerExecutesChunk
    \/ Resume

Spec == Init /\ [][Next]_vars

(* ------------------------- one run, scheduled ------------------------- *)
(* A single invocation.  The main thread and the pool threads are operating *)
(* system threads: whichever of them can take a step is eventually          *)
(* scheduled, and a statement in flight eventually returns or raises.  A    *)
(* signal may arrive or not.                                                *)
MainSteps ==
    \/ ModuleInit
    \/ Main
    \/ Submit
    \/ CheckShutdown
    \/ Cancel
    \/ MainReportsException
    \/ AsCompleted

WorkerSteps ==
    \/ WorkerStarts
    \/ WorkerChecksFlag
    \/ WorkerExecutesChunk

NextLive ==
    \/ signal_handler
    \/ MainSteps
    \/ WorkerSteps

SpecLive == Init /\ [][NextLive]_vars /\ WF_vars(MainSteps) /\ WF_vars(WorkerSteps)

(* ------------------------- __main__ of the scripts -------------------- *)
(* just_the_txs.py (both): parse the options, choose end_tx, call           *)
(* start_threads for the mode that was asked for.  The source table holds   *)
(* the keys 0..MAX(tx_sequence_number).                                     *)
Modes(sc) ==
    IF sc = "root" THEN {"setup", "add_cp", "merge_addresses", "add_addresses"}
    ELSE {"add_tx_kind", "merge_addresses", "add_addresses"}

(* bool(x) of an optional int: None and 0 are false *)
truthy(a) == a.given /\ a.val # 0

(* SELECT MAX(tx_sequence_number) FROM <source table> *)
latest_tx_sequence_number(rows) ==
    CHOOSE m \in {r[1] : r \in rows} : \A r \in rows : r[1] <= m

(* if args.end: end_tx = args.end  else: end_tx = latest_tx_sequence_number() *)
end_tx(a, rows) ==
    IF truthy(a.end) THEN a.end.val ELSE latest_tx_sequence_number(rows)

(* the end each branch of __main__ hands to start_threads: end_tx, except   *)
(* the migration script's --add-tx-kind, which passes                       *)
(* latest_tx_sequence_number()                                              *)
dispatched_end(sc, a, rows) ==
    IF sc = "migration" /\ a.mode = "add_tx_kind"
    THEN latest_tx_sequence_number(rows)
    ELSE end_tx(a, rows)

InitMain ==
    /\ script \in Scripts
    /\ max_connections \in 1..MaxPool
    /\ chunk_size \in 1..MaxChunk
    /\ \E m \in Modes(script), s \in 0..MaxKey,
          e \in {None} \cup {IntArg(n) : n \in 0..MaxKey} :
          args = [NoArgs EXCEPT !.mode = m, !.start = IntArg(s), !.end = e]
    /\ \E m \in 0..MaxKey : source = {<<t, 0>> : t \in 0..m}
    /\ files = NoFiles
    /\ start = 0 /\ end = 0
    /\ pc = "main"
    /\ resume = FALSE
    /\ shutdown_requested = FALSE /\ delivered = FALSE
    /\ thread_ranges = <<>> /\ supplied = FALSE /\ fut = <<>> /\ k = 1
    /\ chunks = <<>> /\ log = <<>> /\ prior_log = <<>>
    /\ reported = {} /\ getconns = <<>> /\ putconns = <<>>
    /\ PoolIdle
    /\ stmt = "none" /\ chunk = <<0, 0>>
    /\ table = EmptyBag /\ table_once = EmptyBag /\ execs = 0

(* __main__ from parse_args to the fan-out inside start_threads *)
MainDispatch ==
    /\ pc = "main"
    /\ start' = args.start.val
    /\ end' = dispatched_end(script, args, source)
    /\ thread_ranges' = ThreadRanges(start', end', max_connections, <<>>)
    /\ chunks' = [i \in 1..max_connections |-> <<>>]
    /\ pc' = "as_completed"
    /\ UNCHANGED <<argVars, resume, shutdown_requested, delivered, supplied,
                   fut, k, log, prior_log, reported, getconns, putconns,
                   poolVars, mainVars, stmtVars>>

(* a worker passes its next chunk to the chunk function *)
MainExec(i) ==
    /\ pc = "as_completed"
    /\ idx(i) <= thread_ranges[i][2]
    /\ chunks' = [chunks EXCEPT ![i] =
                    Append(@, [lo |-> idx(i), hi |-> end_of_chunk(i), outcome |-> "ok"])]
    /\ UNCHANGED <<argVars, start, end, resume, pc, shutdown_requested, delivered,
                   thread_ranges, supplied, fut, k, log, prior_log, reported,
                   getconns, putconns, poolVars, mainVars, stmtVars>>

WorkerProcessesChunk == \E i \in Futures : MainExec(i)

NextMain ==
    \/ MainDispatch
    \/ WorkerProcessesChunk

SpecMain == InitMain /\ [][NextMain]_vars

(* --------------------- a --resume run and its log file ---------------- *)
(* The previous process left app.log behind; the operator starts the script *)
(* with --resume --log <file>, the file being app.log itself or a copy of   *)
(* it.  Module level runs before __main__: logging.basicConfig(filename=    *)
(* 'app.log', filemode='w') opens app.log for writing, which empties it.    *)
MaxLines == 1      \* lines of the log the previous process left

PriorLines ==
    {log_shutdown(0, lo, hi) : lo \in 0..MaxKey, hi \in 0..MaxKey}
        \cup {log_error(0, lo, hi) : lo \in 0..MaxKey, hi \in 0..MaxKey}

PriorLogs == UNION {[1..n -> PriorLines] : n \in 0..MaxLines}

InitResume ==
    /\ script \in Scripts
    /\ max_connections \in 1..MaxPool
    /\ chunk_size = 1
    /\ start = 0 /\ end = MaxKey
    /\ resume = TRUE
    /\ \E f \in LogFiles : args = [NoArgs EXCEPT !.mode = "merge_addresses", !.log = f]
    /\ \E l \in PriorLogs : files = [f \in LogFiles |-> l] /\ prior_log = l
    /\ pc = "module_init"
    /\ shutdown_requested = FALSE /\ delivered = FALSE
    /\ thread_ranges = <<>> /\ supplied = FALSE /\ fut = <<>> /\ k = 1
    /\ chunks = <<>> /\ log = <<>>
    /\ reported = {} /\ getconns = <<>> /\ putconns = <<>>
    /\ PoolIdle
    /\ StmtIdle

(* logging.basicConfig(filename='app.log', filemode='w', ...) *)
basicConfig(fs) == [fs EXCEPT !["app.log"] = <<>>]

(* the statements at module level, from shutdown_requested = False on *)
ModuleLevel ==
    /\ pc = "module_init"
    /\ shutdown_requested' = FALSE
    /\ files' = basicConfig(files)
    /\ pc' = "main"
    /\ UNCHANGED <<argVars, start, end, resume, delivered, thread_ranges,
                   supplied, fut, k, chunks, log, prior_log, reported,
                   getconns, putconns, poolVars, args, stmtVars>>

(* if args.resume and args.log: thread_ranges = process_log(args.log), then *)
(* start_threads up to its fan-out                                          *)
ResumeMain ==
    /\ pc = "main"
    /\ LET given == IF resume /\ args.log # ""
                    THEN process_log(script, files[args.log]) ELSE <<>>
       IN  /\ thread_ranges' = ThreadRanges(start, end, max_connections, given)
           /\ supplied' = (given # <<>>)
           /\ start' = RebindStart(script, start, given)
           /\ end' = RebindEnd(script, end, given)
    /\ pc' = "submit"
    /\ UNCHANGED <<argVars, resume, shutdown_requested, delivered, fut, k,
                   chunks, log, prior_log, reported, getconns, putconns,
                   poolVars, mainVars, stmtVars>>

NextResume ==
    \/ ModuleLevel
    \/ ResumeMain

SpecResume == InitResume /\ [][NextResume]_vars

(* ------------------ a connection's transaction, chunk by chunk -------- *)
(* One process_range call: the chunk function runs on the worker's          *)
(* connection once per chunk, then putconn.  A psycopg2 connection is idle, *)
(* in a transaction ("intrans") or in a failed transaction ("inerror");     *)
(* the first execute opens a transaction, commit and rollback end it, and   *)
(* in a failed transaction every execute raises InFailedSqlTransaction.     *)
ChunkFunctions(sc) ==
    IF sc = "root"
    THEN {"setup_unpartitioned_table", "update_address_with_cp",
          "create_merged_address_table", "update_table_with_addr"}
    ELSE IF sc = "migration"
    THEN {"update_address_with_cp", "create_merged_address_table",
          "update_table_with_addr"}
    ELSE {"migrate_partition"}

(* what can happen inside the try block: the statement commits, execute     *)
(* raises a psycopg2.Error, or -- in migrate_partition, whose cp_for_tx     *)
(* subscripts cur.fetchone() -- another exception is raised after a SELECT  *)
TxnEvents(sc, fn) ==
    IF fn = "migrate_partition" THEN {"ok", "psycopg2.Error", "TypeError"}
    ELSE {"ok", "psycopg2.Error"}

(* whether the except clause that catches exc calls conn.rollback() *)
handler_rolls_back(sc, fn, exc) ==
    IF sc = "migration" /\ fn = "update_address_with_cp" THEN FALSE
    ELSE IF fn = "migrate_partition" THEN exc = "psycopg2.Error"
    ELSE TRUE

(* the connection's status when the chunk function returns *)
status_after(sc, fn, status, ev) ==
    IF status = "inerror"
    THEN IF handler_rolls_back(sc, fn, "psycopg2.Error") THEN "idle" ELSE "inerror"
    ELSE IF ev = "ok" THEN "idle"
    ELSE IF handler_rolls_back(sc, fn, ev) THEN "idle"
    ELSE IF ev = "psycopg2.Error" THEN "inerror" ELSE "intrans"

(* what the chunk did: in a failed transaction the statement is refused *)
chunk_outcome(status, ev) ==
    IF status = "inerror" THEN "refused" ELSE ev

InitTxn ==
    /\ script \in PoolScripts
    /\ stmt \in ChunkFunctions(script)
    /\ max_connections = 1
    /\ chunk_size \in 1..MaxChunk
    /\ start = 0 /\ end = MaxKey
    /\ thread_ranges = <<<<0, MaxKey>>>>
    /\ chunks = <<<<>>>>
    /\ connection_pool = main_getconn(NewPool, 1).pool
    /\ worker = <<[pos |-> "holding", key |-> 1, conn |-> 1, status |-> "idle"]>>
    /\ pc = "as_completed"
    /\ resume = FALSE
    /\ shutdown_requested = FALSE /\ delivered = FALSE
    /\ supplied = FALSE /\ fut = <<>> /\ k = 1
    /\ log = <<>> /\ prior_log = <<>>
    /\ reported = {} /\ getconns = <<>> /\ putconns = <<>>
    /\ MainIdle
    /\ source = {} /\ chunk = <<0, 0>>
    /\ table = EmptyBag /\ table_once = EmptyBag /\ execs = 0

txnFrame == <<argVars, start, end, resume, pc, shutdown_requested, delivered,
              thread_ranges, supplied, fut, k, log, prior_log, reported,
              getconns, putconns, mainVars, stmtVars>>

(* func(conn, idx, end_of_chunk) returns: every chunk function catches what *)
(* its statement raises                                                     *)
TxnChunk(ev) ==
    /\ worker[1].pos = "holding"
    /\ idx(1) <= thread_ranges[1][2]
    /\ ev \in TxnEvents(script, stmt)
    /\ chunks' = [chunks EXCEPT ![1] =
                    Append(@, [lo |-> idx(1), hi |-> end_of_chunk(1),
                               outcome |-> chunk_outcome(worker[1].status, ev)])]
    /\ worker' = [worker EXCEPT ![1].status = status_after(script, stmt, @, ev)]
    /\ UNCHANGED <<txnFrame, connection_pool>>

(* finally: connection_pool.putconn(conn), at the end of the loop or at a   *)
(* return on shutdown; the pool rolls a connection back that is not idle    *)
TxnPutconn ==
    /\ worker[1].pos = "holding"
    /\ connection_pool' = pool_putconn(connection_pool, worker[1].conn).pool
    /\ worker' = [worker EXCEPT ![1].pos = "ended", ![1].status = "idle"]
    /\ UNCHANGED <<txnFrame, chunks>>

ChunkFunctionReturns == \E ev \in {"ok", "psycopg2.Error", "TypeError"} : TxnChunk(ev)

NextTxn ==
    \/ ChunkFunctionReturns
    \/ TxnPutconn

SpecTxn == InitTxn /\ [][NextTxn]_vars

(* ----------------------- transactions_v2.py: ranges ------------------- *)
(* start_threads(start, end, connections) builds one sub-range per          *)
(* partition table; process_range sends every key of a sub-range to the     *)
(* table of calculate_partition(<first key of the sub-range>).              *)
total_partitions == 131
range_per_partition == 10000000
partition_size == 10000000

calculate_partition(tx_sequence_number) == tx_sequence_number \div partition_size

(* mutant: partition_end without the `- 1` *)
V2Partition_shared_bound(s, e) ==
    [p \in 1..total_partitions |->
        <<s + (p - 1) * range_per_partition,
          Min(s + (p - 1) * range_per_partition + range_per_partition, e)>>]

(* for partition in range(total_partitions): thread_ranges.append(...) *)
V2Partition(s, e) ==
    [p \in 1..total_partitions |->
        <<s + (p - 1) * range_per_partition,
          Min(s + (p - 1) * range_per_partition + range_per_partition - 1, e)>>]

(* to_partition of the process_range call for sub-range i *)
to_partition(i) == calculate_partition(thread_ranges[i][1])

(* keys around the first partition boundaries, and the bulk load's end *)
bulk_load_end == 1300225138

V2Points ==
    {a * range_per_partition + b : a \in 0..MaxPool, b \in 0..MaxKey}
        \cup {a * range_per_partition - b : a \in 1..MaxPool, b \in 1..MaxKey}
        \cup {bulk_load_end}

InitV2Ranges ==
    /\ script = "transactions_v2"
    /\ max_connections \in 1..MaxPool
    /\ chunk_size = 1
    /\ start \in V2Points \ {bulk_load_end}
    /\ end \in {e \in V2Points : e >= start}
    /\ pc = "main"
    /\ resume = FALSE
    /\ shutdown_requested = FALSE /\ delivered = FALSE
    /\ thread_ranges = <<>> /\ supplied = FALSE /\ fut = <<>> /\ k = 1
    /\ chunks = <<>> /\ log = <<>> /\ prior_log = <<>>
    /\ reported = {} /\ getconns = <<>> /\ putconns = <<>>
    /\ PoolIdle
    /\ MainIdle
    /\ StmtIdle

(* if not thread_ranges: for partition in range(total_partitions): ... *)
V2BuildRanges ==
    /\ pc = "main"
    /\ thread_ranges' = V2Partition(start, end)
    /\ pc' = "submit"
    /\ UNCHANGED <<argVars, start, end, resume, shutdown_requested, delivered,
                   supplied, fut, k, chunks, log, prior_log, reported,
                   getconns, putconns, poolVars, mainVars, stmtVars>>

NextV2Ranges == V2BuildRanges

SpecV2Ranges == InitV2Ranges /\ [][NextV2Ranges]_vars

(* ---------------------- transactions_v2.py: __main__ ------------------ *)
(* --bulk-load and --attach-partitions.  args.max_connections is the int    *)
(* default or the str given on the command line; the pool converts it with  *)
(* int(), ThreadPoolExecutor(max_workers=...) and range(...) take it as it  *)
(* is and raise TypeError for a str.  A task is followed from the moment a  *)
(* pool thread takes it to the moment it ends; of the executor's threads at *)
(* most MaxPool are taken to be inside a task at the same moment.           *)
default_max_connections == 131
max_partitions == 131

V2Modes == {"bulk_load", "attach_partitions"}

(* args.max_connections after parse_args *)
parsed_max_connections(a) ==
    IF a.max_connections.given THEN a.max_connections
    ELSE IntArg(default_max_connections)

(* the arguments of the tasks the chosen branch submits: for the bulk load  *)
(* the sub-ranges, for the attach phase <<i, i>> for i in                   *)
(* range(args.max_connections)                                              *)
submitted(mode, n) ==
    IF mode = "bulk_load" THEN V2Partition(0, bulk_load_end)
    ELSE [i \in 1..n |-> <<i - 1, i - 1>>]

InitV2 ==
    /\ script = "transactions_v2"
    /\ \E m \in V2Modes, c \in {None} \cup {StrArg(n) : n \in 1..MaxPool} :
          args = [NoArgs EXCEPT !.mode = m, !.max_connections = c]
    /\ max_connections = 1
    /\ chunk_size = 1
    /\ start = 0 /\ end = 0
    /\ pc = "main"
    /\ resume = FALSE
    /\ shutdown_requested = FALSE /\ delivered = FALSE
    /\ thread_ranges = <<>> /\ supplied = FALSE /\ fut = <<>> /\ k = 1
    /\ chunks = <<>> /\ log = <<>> /\ prior_log = <<>>
    /\ reported = {} /\ getconns = <<>> /\ putconns = <<>>
    /\ PoolIdle
    /\ files = NoFiles
    /\ StmtIdle

v2Frame == <<script, chunk_size, start, end, resume, shutdown_requested,
             delivered, supplied, k, chunks, log, prior_log, reported,
             getconns, putconns, poolVars, mainVars, stmtVars>>

(* __main__ down to the list of futures: the pool takes int(maxconn); the   *)
(* executor's constructor compares max_workers with 0                       *)
V2Main ==
    /\ pc = "main"
    /\ LET n == parsed_max_connections(args)
       IN  /\ max_connections' = n.val
           /\ IF n.type = "str"
              THEN /\ pc' = "TypeError"
                   /\ thread_ranges' = IF args.mode = "bulk_load"
                                       THEN submitted(args.mode, n.val) ELSE <<>>
                   /\ UNCHANGED fut
              ELSE /\ pc' = "as_completed"
                   /\ thread_ranges' = submitted(args.mode, n.val)
                   /\ fut' = [i \in 1..Len(thread_ranges') |-> "pending"]
    /\ UNCHANGED v2Frame

(* a pool thread takes the oldest queued task *)
V2StartTask(i) ==
    /\ pc = "as_completed"
    /\ fut[i] = "pending"
    /\ \A j \in 1..(i - 1) : fut[j] # "pending"
    /\ Cardinality({j \in Futures : fut[j] = "check"}) < Min(max_connections, MaxPool)
    /\ fut' = [fut EXCEPT ![i] = "check"]
    /\ UNCHANGED <<v2Frame, max_connections, pc, thread_ranges>>

(* process_range or process_partition returns or raises *)
V2EndTask(i) ==
    /\ pc = "as_completed"
    /\ fut[i] = "check"
    /\ fut' = [fut EXCEPT ![i] = "finished"]
    /\ UNCHANGED <<v2Frame, max_connections, pc, thread_ranges>>

(* as_completed(futures) is exhausted *)
V2Collect ==
    /\ pc = "as_completed"
    /\ \A i \in Futures : Done(i)
    /\ pc' = "done"
    /\ UNCHANGED <<v2Frame, max_connections, fut, thread_ranges>>

V2TaskStarts == \E i \in Futures : V2StartTask(i)
V2TaskEnds == \E i \in Futures : V2EndTask(i)

NextV2 ==
    \/ V2Main
    \/ V2TaskStarts
    \/ V2TaskEnds
    \/ V2Collect

SpecV2 == InitV2 /\ [][NextV2]_vars

(* ------------------ transactions_v2.py: process_partition ------------- *)
(* The first tasks of the attach phase, statement by statement, with the    *)
(* default pool of 131 connections and as many pool threads, so all of them *)
(* may be in flight together.  chunks[w] is the list of statements task w   *)
(* has executed, each with its outcome; a statement that raises leaves      *)
(* process_partition through its finally clause.  A commit that fails       *)
(* counts as the failure of the statement before it.                        *)

(* mutant: attach_partitions called before add_constraints *)
process_partition_attach_first ==
    <<"set_autovacuum", "vacuum_analyze", "attach_partition", "drop_constraint",
      "add_constraints">>

(* turn_autovacuum_on (ALTER TABLE ... SET, VACUUM ANALYZE), add_constraints *)
(* (one ALTER TABLE adding the primary key and the range check),            *)
(* attach_partitions (ATTACH PARTITION, DROP CONSTRAINT)                    *)
process_partition_steps ==
    <<"set_autovacuum", "vacuum_analyze", "add_constraints", "attach_partition",
      "drop_constraint">>

InitAttach ==
    /\ script = "transactions_v2"
    /\ args = [NoArgs EXCEPT !.mode = "attach_partitions"]
    /\ max_connections = default_max_connections
    /\ \E n \in 1..MaxTasks :
          /\ worker = [w \in 1..n |-> [pos |-> "queued", key |-> 0, conn |-> 0]]
          /\ chunks = [w \in 1..n |-> <<>>]
    /\ connection_pool = NewPool
    /\ pc = "as_completed"
    /\ chunk_size = 1 /\ start = 0 /\ end = 0 /\ resume = FALSE
    /\ shutdown_requested = FALSE /\ delivered = FALSE
    /\ thread_ranges = <<>> /\ supplied = FALSE /\ fut = <<>> /\ k = 1
    /\ log = <<>> /\ prior_log = <<>>
    /\ reported = {} /\ getconns = <<>> /\ putconns = <<>>
    /\ files = NoFiles
    /\ StmtIdle

attachFrame == <<argVars, start, end, resume, pc, shutdown_requested, delivered,
                 thread_ranges, supplied, fut, k, log, prior_log, reported,
                 getconns, putconns, mainVars, stmtVars>>

(* a pool thread takes the oldest queued task: conn = connection_pool.getconn() *)
AttachStart(w) ==
    /\ worker[w].pos = "queued"
    /\ \A v \in 1..(w - 1) : worker[v].pos # "queued"
    /\ LET key == connection_pool.keys + 1
           r == pool_getconn([connection_pool EXCEPT !.keys = key], key, max_connections)
       IN  /\ connection_pool' = r.pool
           /\ worker' = [worker EXCEPT ![w].key = key, ![w].conn = r.conn,
                                       ![w].pos = IF r.conn = 0 THEN "pool_error" ELSE "holding"]
    /\ UNCHANGED <<attachFrame, chunks>>

(* the next statement of the try block is executed; when it raises, the     *)
(* finally clause puts the connection back and the exception ends the task  *)
AttachStep(w, o) ==
    /\ worker[w].pos = "holding"
    /\ Len(chunks[w]) < Len(process_partition_steps)
    /\ chunks' = [chunks EXCEPT ![w] =
                    Append(@, [stmt |-> process_partition_steps[Len(@) + 1], outcome |-> o])]
    /\ IF o = "failed"
       THEN /\ connection_pool' = pool_putconn(connection_pool, worker[w].conn).pool
            /\ worker' = [worker EXCEPT ![w].pos = "raised"]
       ELSE UNCHANGED <<connection_pool, worker>>
    /\ UNCHANGED attachFrame

(* the try block is through: finally: connection_pool.putconn(conn) *)
AttachEnd(w) ==
    /\ worker[w].pos = "holding"
    /\ Len(chunks[w]) = Len(process_partition_steps)
    /\ connection_pool' = pool_putconn(connection_pool, worker[w].conn).pool
    /\ worker' = [worker EXCEPT ![w].pos = "finished"]
    /\ UNCHANGED <<attachFrame, chunks>>

PartitionTaskStarts == \E w \in Tasks : AttachStart(w)
PartitionTaskExecutes == \E w \in Tasks, o \in StmtOutcomes : AttachStep(w, o)
PartitionTaskEnds == \E w \in Tasks : AttachEnd(w)

NextAttach ==
    \/ PartitionTaskStarts
    \/ PartitionTaskExecutes
    \/ PartitionTaskEnds

SpecAttach == InitAttach /\ [][NextAttach]_vars

(* ----------------------------- the progress bar ----------------------- *)
(* tqdm(total=total_range) and pbar.update(chunk_size) after every call of  *)
(* the chunk function that returned: the bar's counter n.  total_range is   *)
(* end - start + 1 over start_threads' (rebound) locals; for supplied       *)
(* thread_ranges the migration script adds up their lengths instead.        *)
RECURSIVE pbar_n(_)
pbar_n(i) == IF i = 0 THEN 0 ELSE pbar_n(i - 1) + Len(Returned(i)) * chunk_size

RECURSIVE RangesLength(_, _)
RangesLength(rs, i) ==
    IF i = 0 THEN 0 ELSE RangesLength(rs, i - 1) + (rs[i][2] - rs[i][1] + 1)

total_range(sc) ==
    IF supplied /\ sc = "migration" THEN RangesLength(thread_ranges, Len(thread_ranges))
    ELSE end - start + 1

(* ------------------------- review.py: exceeds ------------------------- *)
(* A report file holds a list of reports.  A report's variables are a dict  *)
(* that may or may not have the key 'filter' (Dict[str, Any]; analysis.py   *)
(* reads it under `if 'filter' in report.variables`); a filter is a dict,   *)
(* kept here as the list of its keys.  metrics is None or carries max, a    *)
(* duration in whole milliseconds.                                          *)
MaxReports == 2    \* reports in the file
MaxDuration == 1   \* largest --max-duration drawn

Statuses == {"COMPLETED", "TIMED OUT"}

NoMetrics == [given |-> FALSE, max |-> 0]
Metrics(m) == [given |-> TRUE, max |-> m]
MetricsSet == {NoMetrics} \cup {Metrics(m) : m \in 0..(MaxDuration + 1)}

Filters == {<<>>, <<"sender">>}
VariablesSet == {[first |-> 1]} \cup {[first |-> 1, filter |-> f] : f \in Filters}

ReportsOfLen(n) ==
    {[i \in 1..n |-> [index |-> i, status |-> st[i], variables |-> vs[i],
                      metrics |-> ms[i]]] :
        st \in [1..n -> Statuses], vs \in [1..n -> VariablesSet],
        ms \in [1..n -> MetricsSet]}

OutputFiles == {"exceeds.json", "not_exceeded.json", "exceeded_filters.json",
                "not_exceeded_filters.json"}

NoFile == [exists |-> FALSE, data |-> <<>>]
File(d) == [exists |-> TRUE, data |-> d]

(* report.status == 'TIMED OUT' or (report.metrics is not None and          *)
(* report.metrics.max > args.max_duration)                                  *)
exceeds_condition(report, max_duration) ==
    \/ report.status = "TIMED OUT"
    \/ (report.metrics.given /\ report.metrics.max > max_duration)

(* list(report.variables['filter'].keys()); the subscript raises KeyError   *)
(* when the report's variables have no 'filter'                             *)
filter_keys(report) ==
    IF "filter" \in DOMAIN report.variables
    THEN [raised |-> "", keys |-> report.variables.filter]
    ELSE [raised |-> "KeyError", keys |-> <<>>]

exceeds_locals == [exceeded |-> <<>>, not_exceeded |-> <<>>,
                   exceeded_filters |-> <<>>, not_exceeded_filters |-> <<>>,
                   raised |-> ""]

(* for report in report_summaries.reports: ... ; each branch appends the    *)
(* report first and its filter keys second                                  *)
RECURSIVE exceeds_loop(_, _, _)
exceeds_loop(reports, max_duration, l) ==
    IF reports = <<>> THEN l
    ELSE LET report == Head(reports)
             fk == filter_keys(report)
         IN  IF exceeds_condition(report, max_duration)
             THEN LET l1 == [l EXCEPT !.exceeded = Append(@, report)]
                  IN  IF fk.raised # "" THEN [l1 EXCEPT !.raised = fk.raised]
                      ELSE exceeds_loop(Tail(reports), max_duration,
                               [l1 EXCEPT !.exceeded_filters = Append(@, fk.keys)])
             ELSE LET l1 == [l EXCEPT !.not_exceeded = Append(@, report)]
                  IN  IF fk.raised # "" THEN [l1 EXCEPT !.raised = fk.raised]
                      ELSE exceeds_loop(Tail(reports), max_duration,
                               [l1 EXCEPT !.not_exceeded_filters = Append(@, fk.keys)])

InitExceeds ==
    /\ script = "review"
    /\ max_connections = 1 /\ chunk_size = 1
    /\ start = 0 /\ end = 0 /\ resume = FALSE
    /\ pc = "main"
    /\ shutdown_requested = FALSE /\ delivered = FALSE
    /\ thread_ranges = <<>> /\ supplied = FALSE /\ fut = <<>> /\ k = 1
    /\ chunks = <<>> /\ log = <<>> /\ prior_log = <<>>
    /\ reported = {} /\ getconns = <<>> /\ putconns = <<>>
    /\ PoolIdle
    /\ StmtIdle
    /\ \E d \in 0..MaxDuration :
           args = [mode |-> "exceeds", file |-> "report.json", max_duration |-> d]
    /\ \E n \in 0..MaxReports : \E rs \in ReportsOfLen(n) :
           files = [f \in OutputFiles \cup {"report.json"} |->
                       IF f = "report.json" THEN File(rs) ELSE NoFile]

(* exceeds(args): the loop, then the four json.dump calls; an exception in  *)
(* the loop ends the process before any output file is opened               *)
exceeds ==
    /\ pc = "main"
    /\ args.mode = "exceeds"
    /\ LET l == exceeds_loop(files[args.file].data, args.max_duration, exceeds_locals)
       IN  IF l.raised # ""
           THEN pc' = l.raised /\ files' = files
           ELSE /\ pc' = "done"
                /\ files' = [files EXCEPT
                       !["exceeds.json"] = File(l.exceeded),
                       !["not_exceeded.json"] = File(l.not_exceeded),
                       !["exceeded_filters.json"] = File(l.exceeded_filters),
                       !["not_exceeded_filters.json"] = File(l.not_exceeded_filters)]
    /\ UNCHANGED <<argVars, start, end, resume, shutdown_requested, delivered,
                   thread_ranges, supplied, fut, k, chunks, log, prior_log,
                   reported, getconns, putconns, poolVars, args, stmtVars>>

NextExceeds == exceeds

SpecExceeds == InitExceeds /\ [][NextExceeds]_vars

(* ---------------- runnable_query.py: replace_placeholders -------------- *)
(* A str is the sequence of its characters.  A bind value is an int, a str, *)
(* a list of bytes or a list of lists of bytes.  The local `sql` that the   *)
(* loop rebinds is kept in stmt, enumerate's i in k.                        *)
MaxBinds == 10     \* most bind values of one query

Digits == <<"0", "1", "2", "3", "4", "5", "6", "7", "8", "9">>
HexDigits == Digits \o <<"a", "b", "c", "d", "e", "f">>

(* str(n) and f"{n}" for a non-negative int, as characters *)
str(n) == [j \in 1..Len(Str(n)) |-> Digits[Str(n)[j] + 1]]

IntValue(n) == [type |-> "int", n |-> n, s |-> <<>>, bytes |-> <<>>, lists |-> <<>>]
StrValue(s) == [type |-> "str", n |-> 0, s |-> s, bytes |-> <<>>, lists |-> <<>>]
BytesValue(b) == [type |-> "bytes", n |-> 0, s |-> <<>>, bytes |-> b, lists |-> <<>>]
ListsValue(l) == [type |-> "lists", n |-> 0, s |-> <<>>, bytes |-> <<>>, lists |-> l]

(* ''.join(format(byte, '02x') for byte in bytea_value) *)
RECURSIVE hex(_)
hex(bytea_value) ==
    IF bytea_value = <<>> THEN <<>>
    ELSE <<HexDigits[(Head(bytea_value) \div 16) + 1],
           HexDigits[(Head(bytea_value) % 16) + 1]>> \o hex(Tail(bytea_value))

format_bytea(bytea_value) ==
    <<"'", "\\", "x">> \o hex(bytea_value)
        \o <<"'", ":", ":", "b", "y", "t", "e", "a">>

(* ', '.join(format_bytea(byte) for byte in value) *)
RECURSIVE join_bytea(_)
join_bytea(value) ==
    IF value = <<>> THEN <<>>
    ELSE IF Len(value) = 1 THEN format_bytea(value[1])
    ELSE format_bytea(value[1]) \o <<",", " ">> \o join_bytea(Tail(value))

(* the if / elif chain of the loop body *)
formatted_value(value) ==
    IF value.type = "bytes" THEN format_bytea(value.bytes)
    ELSE IF value.type = "lists"
         THEN <<"A", "R", "R", "A", "Y", "[">> \o join_bytea(value.lists) \o <<"]">>
    ELSE IF value.type = "str" THEN <<"'">> \o value.s \o <<"'">>
    ELSE str(value.n)

(* f"${i}" *)
placeholder(i) == <<"$">> \o str(i)

(* index of the first occurrence of old in s, 0 when there is none *)
find(s, old) ==
    LET ps == {p \in 1..(Len(s) - Len(old) + 1) :
                   SubSeq(s, p, p + Len(old) - 1) = old}
    IN  IF ps = {} THEN 0 ELSE CHOOSE p \in ps : \A q \in ps : p <= q

(* s.replace(old, new, 1) *)
replace(s, old, new) ==
    LET p == find(s, old)
    IN  IF p = 0 THEN s
        ELSE SubSeq(s, 1, p - 1) \o new \o SubSeq(s, p + Len(old), Len(s))

(* The queries drawn: the placeholders $1..$n, each once, separated by a    *)
(* comma, in ascending order or with two of them exchanged.                 *)
Exchanged(n, a, b) == [j \in 1..n |-> IF j = a THEN b ELSE IF j = b THEN a ELSE j]

Orders(n) == {Exchanged(n, a, b) : a \in 1..n, b \in 1..n}

RECURSIVE Query(_)
Query(order) ==
    IF order = <<>> THEN <<>>
    ELSE IF Len(order) = 1 THEN placeholder(order[1])
    ELSE placeholder(order[1]) \o <<",">> \o Query(Tail(order))

(* The bind lists drawn: the int 7 everywhere but at one position           *)
BindValues == {IntValue(7), StrValue(<<"a">>), StrValue(<<"$", "2">>),
               BytesValue(<<0, 255>>), ListsValue(<<<<0>>, <<255>>>>)}

BindLists(n) ==
    {[j \in 1..n |-> IF j = p THEN v ELSE IntValue(7)] :
        p \in 1..n, v \in BindValues}

InitReplace ==
    /\ script = "runnable_query"
    /\ max_connections = 1 /\ chunk_size = 1
    /\ start = 0 /\ end = 0 /\ resume = FALSE
    /\ pc = "replace_placeholders"
    /\ shutdown_requested = FALSE /\ delivered = FALSE
    /\ thread_ranges = <<>> /\ supplied = FALSE /\ fut = <<>> /\ k = 1
    /\ chunks = <<>> /\ log = <<>> /\ prior_log = <<>>
    /\ reported = {} /\ getconns = <<>> /\ putconns = <<>>
    /\ PoolIdle
    /\ files = NoFiles
    /\ \E n \in 1..MaxBinds : \E o \in Orders(n) : \E b \in BindLists(n) :
           /\ args = [mode |-> "replace_placeholders", sql |-> Query(o), binds |-> b]
           /\ stmt = Query(o)
    /\ source = {} /\ chunk = <<0, 0>>
    /\ table = EmptyBag /\ table_once = EmptyBag /\ execs = 0

replaceFrame == <<argVars, start, end, resume, shutdown_requested, delivered,
                  thread_ranges, supplied, fut, chunks, log, prior_log,
                  reported, getconns, putconns, poolVars, mainVars,
                  source, chunk, table, table_once, execs>>

(* one iteration of `for i, value in enumerate(binds, start=1)` *)
ReplaceIteration ==
    /\ pc = "replace_placeholders"
    /\ k <= Len(args.binds)
    /\ stmt' = replace(stmt, placeholder(k), formatted_value(args.binds[k]))
    /\ k' = k + 1
    /\ pc' = pc
    /\ UNCHANGED replaceFrame

(* return sql *)
ReplaceReturn ==
    /\ pc = "replace_placeholders"
    /\ k > Len(args.binds)
    /\ pc' = "returned"
    /\ UNCHANGED <<replaceFrame, stmt, k>>

NextReplace ==
    \/ ReplaceIteration
    \/ ReplaceReturn

SpecReplace == InitReplace /\ [][NextReplace]_vars

(* ============================== claims =============================== *)
(* thread_ranges were built by start_threads itself (none were supplied) *)
Built == pc \notin {"module_init", "main"} /\ ~ supplied

AllChunks == UNION {{<<i, j>> : j \in 1..Len(chunks[i])} : i \in Futures}

(* how many times a key was passed to the chunk function, over all workers *)
Calls(key) ==
    Cardinality({c \in AllChunks : key \in chunks[c[1]][c[2]].lo..chunks[c[1]][c[2]].hi})

NoFailure == \A c \in AllChunks : chunks[c[1]][c[2]].outcome = "ok"

RangeKeys(rs) == UNION {Keys(rs[i]) : i \in 1..Len(rs)}

LogLines == {log[j] : j \in 1..Len(log)}

(* C1: the sub-ranges start_threads builds from (start, end, max_connections) *)
(* are pairwise non-overlapping, ascending, and their keys are exactly        *)
(* start..end.                                                                *)
ThmC1 ==
    Built =>
        /\ \A i, j \in Futures : i # j => Keys(thread_ranges[i]) \cap Keys(thread_ranges[j]) = {}
        /\ \A i, j \in Futures : i < j =>
              /\ thread_ranges[i][1] < thread_ranges[j][1]
              /\ thread_ranges[i][2] <= thread_ranges[j][2]
        /\ RangeKeys(thread_ranges) = start..end

(* a partition of at least two sub-ranges whose last one is truncated at end *)
WitC1 ==
    /\ Built
    /\ Len(thread_ranges) >= 2
    /\ end - start + 1 > Len(thread_ranges)
    /\ (end - start + 1) % Len(thread_ranges) # 0

(* C2: without a signal and without a failing statement no key of start..end *)
(* is ever passed to the chunk function twice, no key outside start..end is   *)
(* passed at all, and when start_threads returns every key was passed once.   *)
ThmC2 ==
    (Built /\ ~ delivered /\ NoFailure) =>
        /\ \A key \in 0..(MaxKey + MaxChunk) :
              Calls(key) <= (IF key \in start..end THEN 1 ELSE 0)
        /\ pc = "done" => \A key \in start..end : Calls(key) = 1

(* a completed run of two workers, one of which executed several chunks *)
WitC2 ==
    /\ Built /\ ~ delivered /\ NoFailure /\ pc = "done"
    /\ Len(thread_ranges) >= 2
    /\ \E i \in Futures : Len(chunks[i]) >= 2
    /\ \A i \in Futures : Len(chunks[i]) >= 1

(* C3: while shutdown_requested is true no worker enters a chunk; a chunk     *)
(* that is executed then was already in flight and is that worker's only one *)
(* of the step; committed keys stay committed.                                *)
ThmC3 ==
    [][(shutdown_requested /\ pc # "done") =>
          /\ \A i \in DOMAIN fut' :
                fut'[i] = "exec" => (i \in DOMAIN fut /\ fut[i] = "exec")
          /\ \A i \in DOMAIN chunks \cap DOMAIN chunks' :
                Len(chunks'[i]) > Len(chunks[i]) =>
                    /\ fut[i] = "exec" /\ fut'[i] # "exec"
                    /\ Len(chunks'[i]) = Len(chunks[i]) + 1
          /\ CommittedKeys \subseteq CommittedKeys']_vars

(* the flag is set, one worker has stopped on it after committing a chunk,   *)
(* another one still has its chunk in flight                                 *)
WitC3 ==
    /\ shutdown_requested
    /\ \E i \in Futures : fut[i] = "exec"
    /\ \E i \in Futures :
          /\ fut[i] = "finished" /\ Len(chunks[i]) >= 1
          /\ idx(i) <= thread_ranges[i][2]

(* C4: a resume invocation hands to its workers exactly the keys of the      *)
(* ranges recorded in the log it was given.                                   *)
CexC4 ==
    [][(pc = "main" /\ resume) =>
          RangeKeys(thread_ranges') = RangeKeys(process_log(script, prior_log))]_vars

(* C5: when a cancelled first run has returned, every key of start..end is   *)
(* in an executed chunk or inside the range of a shutdown line of the log.   *)
CexC5 ==
    (pc = "done" /\ ~ resume /\ shutdown_requested /\ NoFailure) =>
        \A key \in start..end :
            \/ Calls(key) >= 1
            \/ \E l \in LogLines : l.event = "shutdown" /\ key \in Int_(l.lo)..Int_(l.hi)

(* C6: a shutdown line of worker i names idx..end of its sub-range: the      *)
(* first key of the first chunk it did not execute up to the sub-range end,  *)
(* and with the executed chunks it partitions the sub-range.                 *)
ThmC6 ==
    \A l \in LogLines : l.event = "shutdown" =>
        LET i == Int_(l.thread) + 1
            lo == Int_(l.lo)
            hi == Int_(l.hi)
        IN  /\ i \in Futures
            /\ lo = idx(i) /\ lo <= hi
            /\ hi = thread_ranges[i][2]
            /\ ExecutedKeys(i) \cap (lo..hi) = {}
            /\ ExecutedKeys(i) \cup (lo..hi) = Keys(thread_ranges[i])

(* a worker that executed a chunk and then logged the rest of its sub-range *)
WitC6 ==
    \E l \in LogLines :
        /\ l.event = "shutdown"
        /\ Len(chunks[Int_(l.thread) + 1]) >= 1
        /\ Int_(l.lo) > thread_ranges[Int_(l.thread) + 1][1]

CexC8 == execs = 2 => table = table_once

(* C9: within one process, once shutdown_requested is true it stays true.    *)
CexC9 == [][(shutdown_requested /\ pc # "done") => shutdown_requested']_vars

(* C10: a chunk whose statement failed is the last chunk its worker          *)
(* executes, and an error line whose range holds the chunk is in the log.    *)
CexC10 ==
    \A c \in AllChunks :
        LET ch == chunks[c[1]][c[2]]
        IN  ch.outcome # "ok" =>
              /\ c[2] = Len(chunks[c[1]])
              /\ \E l \in LogLines :
                    /\ l.event = "error"
                    /\ Int_(l.lo) <= ch.lo /\ ch.hi <= Int_(l.hi)

(* --------------------------- C11 .. C20 ------------------------------- *)
Raised == {i \in Futures : fut[i] = "raised"}

(* every worker that did not raise went through its whole sub-range *)
OthersComplete ==
    (pc = "done" /\ ~ shutdown_requested) =>
        \A i \in Futures \ Raised :
            fut[i] = "finished" /\ ExecutedKeys(i) = Keys(thread_ranges[i])

(* C11: a worker that raised stops no other worker (without cancellation    *)
(* every other worker executes all chunks of its sub-range), and            *)
(* start_threads prints the exception only once all workers are collected.  *)
CexC11 ==
    /\ OthersComplete
    /\ reported # {} => \A i \in Futures : Done(i)

(* C11, amended: a worker that raised stops no other worker; start_threads  *)
(* prints an exception only for a worker that raised, when as_completed     *)
(* yields that worker's future (others may still be running), and it        *)
(* returns only after every worker has ended and every exception is printed.*)
ThmC11 ==
    /\ OthersComplete
    /\ reported \subseteq Raised
    /\ reported # {} => pc \in {"as_completed", "done"}
    /\ pc = "done" => (reported = Raised /\ \A i \in Futures : Done(i))

(* start_threads returned after one worker raised and another one, started  *)
(* behind it, executed its sub-range in several chunks                      *)
WitC11 ==
    /\ pc = "done" /\ ~ shutdown_requested
    /\ \E i, j \in Futures :
          /\ i < j /\ fut[i] = "raised" /\ i \in reported
          /\ fut[j] = "finished" /\ Len(chunks[j]) >= 2

(* the keys of worker i's sub-range that no returned call of func covered *)
Abandoned(i) ==
    Keys(thread_ranges[i]) \ UNION {c.lo..c.hi : c \in {Returned(i)[j] : j \in 1..Len(Returned(i))}}

(* C12: the keys a worker abandoned when an exception left its              *)
(* process_range lie in the ranges the script's own process_log             *)
(* reconstructs from the log of that run.                                   *)
CexC12 ==
    \A i \in Raised : Abandoned(i) \subseteq RangeKeys(process_log(script, log))

(* C13: no connection is held by two workers at once: two workers that are *)
(* both between their getconn and their putconn hold different connections. *)
CexC13 ==
    \A v, w \in Tasks :
        (v # w /\ Holding(v) /\ Holding(w)) => worker[v].conn # worker[w].conn

(* C14: a process_range call takes one connection on entry and has called  *)
(* putconn for it exactly once when it ends, whichever way it ends: the     *)
(* loop exhausted, a return on shutdown, or an exception re-raised; while   *)
(* it runs it has not put the connection back, and a future that never ran  *)
(* took none.                                                               *)
ThmC14 ==
    \A i \in Futures :
        /\ fut[i] \in {"new", "pending", "cancelled"} => (getconns[i] = 0 /\ putconns[i] = 0)
        /\ Running(i) => (getconns[i] = 1 /\ putconns[i] = 0)
        /\ fut[i] \in {"finished", "raised"} => (getconns[i] = 1 /\ putconns[i] = 1)

(* the two exits that leave keys behind, in one run: a worker whose         *)
(* statement raised and a worker that returned on the flag after a chunk,   *)
(* both with their connection put back                                      *)
WitC14 ==
    /\ pc = "done"
    /\ \E i \in Futures : fut[i] = "raised" /\ getconns[i] = 1 /\ putconns[i] = 1
    /\ \E i \in Futures :
          /\ fut[i] = "finished" /\ getconns[i] = 1 /\ putconns[i] = 1
          /\ Len(chunks[i]) >= 1 /\ idx(i) <= thread_ranges[i][2]
          /\ \E l \in LogLines : l.event = "shutdown" /\ Int_(l.thread) = i - 1

(* C15: in objects_history.py the connection of an index-creation task     *)
(* that has ended is back in the pool, and when the attach step has ended   *)
(* no connection is checked out any more.                                   *)
CexC15 ==
    script = "objects_history" =>
        /\ \A i \in Tasks :
              worker[i].pos \in {"finished", "raised"} => ~ CheckedOut(worker[i].conn)
        /\ pc = "done" => connection_pool.used = EmptyMap

AllExhausted == \A i \in Futures : idx(i) > thread_ranges[i][2]

(* C16: when every worker has committed all chunks of its sub-range, in     *)
(* whatever interleaving, the destination holds the rows it holds after the *)
(* same chunks ran sequentially in ascending key order.                     *)
ThmC16 ==
    (stmt \in AddrStmts /\ AllExhausted) =>
        table = Sequential(EmptyBag, 1, thread_ranges[1][1])

(* all chunks are committed, the last commit was a chunk of the first       *)
(* worker after the second worker had committed, and both wrote rows        *)
WitC16 ==
    /\ stmt \in AddrStmts /\ AllExhausted
    /\ Len(thread_ranges) >= 2
    /\ Len(chunks[1]) >= 1 /\ Len(chunks[2]) >= 1
    /\ chunk[1] = chunks[1][Len(chunks[1])].lo
    /\ \E r, t \in BagToSet(table) : r[1] <= chunk[2] /\ t[1] > chunk[2] /\ r[2] = t[2]

(* the chunks worker i has executed so far, against its sub-range [s, e] *)
ChunkShape(i) ==
    LET s == thread_ranges[i][1]
        e == thread_ranges[i][2]
        c == chunks[i]
    IN  s <= e =>
          /\ Len(c) >= 1 => c[1].lo = s
          /\ \A j \in 1..(Len(c) - 1) : c[j + 1].lo = c[j].hi + 1
          /\ \A j \in 1..Len(c) :
                /\ c[j].lo <= c[j].hi /\ c[j].hi <= e
                /\ c[j].hi - c[j].lo + 1 <= chunk_size
                /\ c[j].hi - c[j].lo + 1 < chunk_size => (j = Len(c) /\ c[j].hi = e)
          /\ (fut[i] = "finished" /\ ~ shutdown_requested) =>
                (Len(c) >= 1 /\ c[Len(c)].hi = e)

(* a worker enters a chunk only from the flag check, having read the flag   *)
(* as false, and executes exactly the chunk it entered                      *)
FlagReadBeforeChunk ==
    \A i \in DOMAIN fut \cap DOMAIN fut' :
        /\ (fut'[i] = "exec" /\ fut[i] # "exec") =>
              (fut[i] = "check" /\ ~ shutdown_requested)
        /\ Len(chunks'[i]) > Len(chunks[i]) =>
              (fut[i] = "exec" /\ Len(chunks'[i]) = Len(chunks[i]) + 1)

(* C17: within a sub-range [s, e], s <= e, the executed chunks are          *)
(* ascending, contiguous and non-overlapping, the first starts at s, each   *)
(* holds at most chunk_size keys, only the last may hold fewer and it ends  *)
(* at e, a worker that went through its loop ends at e, and the flag is     *)
(* read before each chunk.                                                  *)
ThmC17 ==
    /\ [](pc \in {"submit", "check_shutdown", "cancel", "as_completed", "done"} =>
            \A i \in Futures : ChunkShape(i))
    /\ [][FlagReadBeforeChunk]_vars

(* a worker that went through a sub-range in two chunks, the last truncated *)
WitC17 ==
    \E i \in Futures :
        /\ fut[i] = "finished" /\ ~ shutdown_requested
        /\ Len(chunks[i]) = 2
        /\ chunks[i][1].hi - chunks[i][1].lo + 1 = chunk_size
        /\ chunks[i][2].hi - chunks[i][2].lo + 1 < chunk_size
        /\ chunks[i][2].hi = thread_ranges[i][2]

(* the sub-ranges that start inside [start, end] *)
Inside == {i \in Futures : thread_ranges[i][1] <= end}

(* C18: start_threads builds exactly max_connections sub-ranges, each with  *)
(* lo <= hi <= end, each next one starting right after the previous one,    *)
(* all but the last holding exactly ceil((end-start+1)/max_connections)     *)
(* keys and the last one ending at end.                                     *)
CexC18 ==
    Built =>
        /\ Len(thread_ranges) = max_connections
        /\ \A i \in Futures :
              thread_ranges[i][1] <= thread_ranges[i][2] /\ thread_ranges[i][2] <= end
        /\ \A i \in Futures \ {Len(thread_ranges)} :
              /\ thread_ranges[i + 1][1] = thread_ranges[i][2] + 1
              /\ thread_ranges[i][2] - thread_ranges[i][1] + 1 =
                    range_per_thread(start, end, max_connections)
        /\ thread_ranges[Len(thread_ranges)][2] = end

(* C18, amended: start_threads builds exactly max_connections sub-ranges,   *)
(* none reaching past end.  Those that start inside [start, end] come       *)
(* first; they are well-formed, adjacent, hold exactly                      *)
(* ceil((end-start+1)/max_connections) keys except the last of them, which  *)
(* ends at end.  Every later sub-range is the empty (lo, end) with lo > end.*)
ThmC18 ==
    Built =>
        /\ Len(thread_ranges) = max_connections
        /\ \A i \in Futures : thread_ranges[i][2] <= end
        /\ 1 \in Inside
        /\ \A i \in Inside : (1..i) \subseteq Inside /\ thread_ranges[i][1] <= thread_ranges[i][2]
        /\ \A i \in Inside :
              IF i + 1 \in Inside
              THEN /\ thread_ranges[i + 1][1] = thread_ranges[i][2] + 1
                   /\ thread_ranges[i][2] - thread_ranges[i][1] + 1 =
                         range_per_thread(start, end, max_connections)
              ELSE thread_ranges[i][2] = end
        /\ \A i \in Futures \ Inside :
              thread_ranges[i][2] = end /\ thread_ranges[i][1] > end

(* fewer keys than workers: a well-formed sub-range followed by an empty one *)
WitC18 ==
    /\ Built
    /\ Len(thread_ranges) >= 2
    /\ Inside # Futures
    /\ \E i \in Futures \ Inside : thread_ranges[i][1] > thread_ranges[i][2]

(* C19: with start = 0, end = 999 and a pool of 4 the thread_ranges         *)
(* start_threads builds are (0,249), (250,499), (500,749), (750,999).       *)
ThmC19 ==
    (pc = "submit" /\ start = 0 /\ end = 999 /\ max_connections = 4) =>
        thread_ranges = <<<<0, 249>>, <<250, 499>>, <<500, 749>>, <<750, 999>>>>

(* start_threads has built the ranges for 0, 999 and four connections *)
WitC19 ==
    /\ pc = "submit" /\ start = 0 /\ end = 999 /\ max_connections = 4
    /\ Len(thread_ranges) = 4

(* every submitted worker has returned or been cancelled, and every        *)
(* connection taken was put back                                            *)
AllEnded ==
    \A i \in Futures : Done(i) /\ fut[i] # "new" /\ putconns[i] = getconns[i]

(* C20: every run terminates -- start_threads eventually returns, with or   *)
(* without a signal -- and it returns only when every submitted worker has  *)
(* returned or been cancelled and has put its connection back.              *)
ThmC20 ==
    /\ <>(pc = "done")
    /\ [](pc = "done" => AllEnded)

(* a run that ended after a signal: one future cancelled before it started, *)
(* one worker stopped on the flag with its connection put back              *)
WitC20 ==
    /\ pc = "done" /\ shutdown_requested
    /\ \E i \in Futures : fut[i] = "cancelled"
    /\ \E i \in Futures : fut[i] = "finished" /\ Len(chunks[i]) >= 1 /\ putconns[i] = 1

(* ============================ C21 .. C30 ============================= *)
(* C21: when --end is given, no key greater than it is passed to the chunk  *)
(* function by any worker, in every mode and for every value of --end,      *)
(* 0 included.                                                              *)
CexC21 ==
    (pc = "as_completed" /\ args.end.given) =>
        \A i \in Futures : \A key \in ExecutedKeys(i) : key <= args.end.val

(* C22: when process_log is about to read the file passed with --log, the   *)
(* file still holds what the previous process left in it, and the ranges a  *)
(* resume run starts from are the ones that log records; this includes      *)
(* --log app.log.                                                           *)
CexC22 ==
    /\ (pc = "main" /\ resume) => files[args.log] = prior_log
    /\ (pc = "submit" /\ resume) =>
          thread_ranges = ThreadRanges(0, MaxKey, max_connections,
                                       process_log(script, prior_log))

(* C23: no getconn fails by exhaustion: the connections checked out never   *)
(* outnumber the pool's maximum, in objects_history.py for every start and  *)
(* end with one connection taken per submitted partition index.             *)
CexC23 ==
    /\ Cardinality(DOMAIN connection_pool.used) <= max_connections
    /\ pc # "pool_error"
    /\ \A w \in Tasks : worker[w].pos # "pool_error"

(* C24: whenever a chunk function has returned, the worker's connection is  *)
(* idle (no open and no failed transaction), and no chunk is refused        *)
(* because an earlier chunk on that connection failed.                      *)
CexC24 ==
    \A w \in Tasks :
        /\ worker[w].status = "idle"
        /\ \A j \in 1..Len(chunks[w]) : chunks[w][j].outcome # "refused"

(* C25: every sub-range start_threads dispatches in transactions_v2.py lies *)
(* within one 10,000,000-key partition, for every start >= 0 and end >=     *)
(* start (sub-ranges holding no key aside).                                 *)
CexC25 ==
    pc = "submit" =>
        \A i \in Futures :
            thread_ranges[i][1] <= thread_ranges[i][2] =>
                calculate_partition(thread_ranges[i][1]) = calculate_partition(thread_ranges[i][2])

(* C25, amended: when start is a multiple of 10,000,000 -- the bulk load    *)
(* passes 0 -- every key of every sub-range belongs to the partition of the *)
(* sub-range's first key, which is the table process_range inserts into.    *)
ThmC25 ==
    (pc = "submit" /\ start % range_per_partition = 0) =>
        \A i \in Futures :
            thread_ranges[i][1] <= thread_ranges[i][2] =>
                /\ calculate_partition(thread_ranges[i][2]) = to_partition(i)
                /\ to_partition(i) = start \div range_per_partition + i - 1

(* aligned start, several partitions in use, the last used one cut at end *)
WitC25 ==
    /\ pc = "submit" /\ start % range_per_partition = 0
    /\ \E i \in Futures :
          /\ i >= 2
          /\ thread_ranges[i][1] < thread_ranges[i][2]
          /\ thread_ranges[i][2] = end
          /\ (end + 1) % range_per_partition # 0

V2Ended == script = "transactions_v2" /\ pc \in {"done", "TypeError"}

(* C26: the bulk load dispatches 131 sub-ranges, pairwise disjoint, that    *)
(* cover exactly 0..1300225138, and when it has ended every one of them was *)
(* executed by a worker, whatever --max-connections is.                     *)
CexC26 ==
    (V2Ended /\ args.mode = "bulk_load") =>
        /\ Len(thread_ranges) = 131
        /\ thread_ranges[1][1] = 0
        /\ thread_ranges[131][2] = 1300225138
        /\ \A i \in 1..131 : thread_ranges[i][1] <= thread_ranges[i][2]
        /\ \A i \in 1..130 : thread_ranges[i + 1][1] = thread_ranges[i][2] + 1
        /\ DOMAIN fut = 1..131
        /\ \A i \in DOMAIN fut : fut[i] = "finished"

(* C27: when the attach phase has ended, process_partition was run exactly  *)
(* once for each partition 0..130, whatever --max-connections is.           *)
CexC27 ==
    (V2Ended /\ args.mode = "attach_partitions") =>
        \A p \in 0..(max_partitions - 1) :
            Cardinality({i \in DOMAIN fut : fut[i] = "finished" /\ thread_ranges[i][1] = p}) = 1

Executed(w, s) == {j \in 1..Len(chunks[w]) : chunks[w][j].stmt = s}
Succeeded(w, s) == {j \in Executed(w, s) : chunks[w][j].outcome = "ok"}

(* C28: for every partition task, the statement adding the primary key and  *)
(* the range check has succeeded before ATTACH PARTITION is executed, the   *)
(* check is dropped only after a successful attach, no statement is         *)
(* executed twice, and a statement that failed is the last one executed.    *)
ThmC28 ==
    \A w \in Tasks :
        /\ \A j \in Executed(w, "attach_partition") :
              \E i \in Succeeded(w, "add_constraints") : i < j
        /\ \A j \in Executed(w, "drop_constraint") :
              \E i \in Succeeded(w, "attach_partition") : i < j
        /\ \A s \in {"add_constraints", "attach_partition", "drop_constraint"} :
              Cardinality(Executed(w, s)) <= 1
        /\ \A j \in 1..Len(chunks[w]) :
              chunks[w][j].outcome = "failed" => (j = Len(chunks[w]) /\ worker[w].pos = "raised")

(* one partition attached and its check dropped, another one whose attach   *)
(* failed and that stopped there                                            *)
WitC28 ==
    /\ args.mode = "attach_partitions"
    /\ \E w \in Tasks :
          worker[w].pos = "finished" /\ Succeeded(w, "drop_constraint") # {}
    /\ \E w \in Tasks :
          /\ worker[w].pos = "raised"
          /\ Succeeded(w, "add_constraints") # {}
          /\ Executed(w, "attach_partition") # {}
          /\ Executed(w, "drop_constraint") = {}

(* C29: the progress counter never exceeds the total the bar was created    *)
(* with, after any set of completed chunks.                                 *)
CexC29 ==
    pc \in {"submit", "check_shutdown", "cancel", "as_completed", "done"} =>
        pbar_n(Len(thread_ranges)) <= total_range(script)

(* what an address is to a transaction in the source tables *)
ExpectedRel(x) ==
    IF x \in source.senders /\ x \notin source.recipients THEN "Sender"
    ELSE IF x \in source.recipients /\ x \notin source.senders THEN "Recipient"
    ELSE IF x \in source.senders /\ x \in source.recipients THEN "SenderAndRecipient"
    ELSE "none"

(* C30: create_merged_address_table leaves exactly one tx_addresses row per *)
(* (tx_sequence_number, address) that is a sender or a recipient in the     *)
(* processed range, its rel naming Sender, Recipient or SenderAndRecipient  *)
(* as the source tables have it; once the range is processed the rows are   *)
(* the same for every chunk_size and every number of workers.               *)
ThmC30 ==
    stmt = "create_merged_address_table" =>
        LET rows == BagToSet(table)
        IN  /\ \A r \in rows : CopiesIn(r, table) = 1
            /\ \A r, t \in rows : (r[1] = t[1] /\ r[2] = t[2]) => r = t
            /\ \A r \in rows : rel_name(script, r[3]) = ExpectedRel(<<r[1], r[2]>>)
            /\ AllExhausted =>
                  {<<r[1], r[2]>> : r \in rows}
                      = Between(source.senders \cup source.recipients, start, end)

(* the range was cut between two workers, both wrote, and the table holds   *)
(* a sender-only, a recipient-only and a sender-and-recipient row           *)
WitC30 ==
    /\ stmt = "create_merged_address_table" /\ AllExhausted
    /\ Len(thread_ranges) >= 2
    /\ \A i \in Futures : Len(chunks[i]) >= 1
    /\ \A n \in {"Sender", "Recipient", "SenderAndRecipient"} :
          \E r \in BagToSet(table) : rel_name(script, r[3]) = n

(* ============================ C31 .. C32 ============================= *)
(* C31: once exceeds has run, every report of the input file is in exactly  *)
(* one of exceeds.json and not_exceeded.json, in input order: in            *)
(* exceeds.json iff its status is TIMED OUT or it has metrics with max      *)
(* greater than max_duration; each filter file is as long as its report     *)
(* file.  Violated: a report whose variables have no 'filter' raises        *)
(* KeyError inside the loop and no output file is written.                  *)
CexC31 ==
    (args.mode = "exceeds" /\ pc # "main") =>
        LET reports == files[args.file].data
            Over(r) == r.status = "TIMED OUT"
                          \/ (r.metrics.given /\ r.metrics.max > args.max_duration)
            Under(r) == ~ Over(r)
        IN  /\ \A f \in OutputFiles : files[f].exists
            /\ files["exceeds.json"].data = SelectSeq(reports, Over)
            /\ files["not_exceeded.json"].data = SelectSeq(reports, Under)
            /\ Len(files["exceeded_filters.json"].data)
                   = Len(files["exceeds.json"].data)
            /\ Len(files["not_exceeded_filters.json"].data)
                   = Len(files["not_exceeded.json"].data)

(* The query with every placeholder replaced by its formatted bind value:   *)
(* a placeholder is a $ and all the digits that follow it.                  *)
DigitRun(s) ==
    LET stops == {j \in 1..Len(s) : \A d \in 1..Len(Digits) : s[j] # Digits[d]}
    IN  IF stops = {} THEN Len(s)
        ELSE (CHOOSE j \in stops : \A q \in stops : j <= q) - 1

Number(s) ==
    Int_([j \in 1..Len(s) |-> (CHOOSE d \in 1..Len(Digits) : Digits[d] = s[j]) - 1])

RECURSIVE Substituted(_, _)
Substituted(s, binds) ==
    IF s = <<>> THEN <<>>
    ELSE IF Head(s) = "$" /\ DigitRun(Tail(s)) > 0
         THEN LET n == DigitRun(Tail(s))
                  i == Number(SubSeq(s, 2, n + 1))
              IN  formatted_value(binds[i])
                      \o Substituted(SubSeq(s, n + 2, Len(s)), binds)
    ELSE <<Head(s)>> \o Substituted(Tail(s), binds)

(* C32: for a query with the placeholders $1..$k and k bind values, what    *)
(* replace_placeholders returns is the query with each placeholder $i       *)
(* replaced by the formatted i-th bind value and nothing else changed, for  *)
(* every k, every order of the placeholders and every bind value.           *)
(* Violated: the text "$1" is also the beginning of "$10", and a str value  *)
(* that contains "$2" is searched by the later iterations.                  *)
CexC32 ==
    (args.mode = "replace_placeholders" /\ pc = "returned") =>
        stmt = Substituted(args.sql, args.binds)

====
